---- MODULE Spec2Model ----
(***************************************************************************)
(* Dyad: an in-memory key-value store with per-key change notification and *)
(* an action -> middleware -> reducer -> set pipeline.                     *)
(*                                                                         *)
(* The model is a small-step interpreter of the store on the JavaScript    *)
(* event loop: a call stack of frames (dispatch, call, middleware,         *)
(* reducer, emit, the continuation of set), a microtask queue and a set of *)
(* timers.  The environment (the script that uses the store) acts only     *)
(* when the call stack is empty.                                           *)
(***************************************************************************)
EXTENDS Integers, Sequences, FiniteSets, TLC

(***************************************************************************)
(* Bounds of the model.                                                    *)
(***************************************************************************)
MaxInit == 1          \* calls of initialize() after construction
MaxCalls == 3         \* dispatch() and emit() calls the script issues
MaxCounterOps == 5    \* INCREMENT/DECREMENT dispatches of the counter script
MaxMiddleware == 2    \* use() calls
MaxMwCalls == 2       \* dispatch() calls of the script that uses middleware
MaxDeferCalls == 2    \* dispatch() calls of the script that defers actions
MaxListeners == 1     \* listeners registered per key
MaxShapeCalls == 2    \* dispatch() calls of the script that dispatches any value
MaxResetCalls == 2    \* dispatch() calls of the script that initializes the store again
MaxHandleCalls == 3   \* dispatch() calls of the script whose reducers keep what set returns
MaxBinds == 2         \* reducers bound to one type
MaxBindCalls == 2     \* dispatch() calls of the script that binds again and again
MaxThunkCalls == 2    \* dispatch() calls of the script whose middleware dispatch
MaxRaiseCalls == 2    \* dispatch() calls of the script whose reducers and middleware raise
MaxListenCalls == 2   \* dispatch() and emit() calls of the script whose listeners raise
MaxReenterCalls == 2  \* dispatch() calls of the script whose listeners dispatch
MaxFailCalls == 2     \* dispatch() calls of the script whose reducers raise

(***************************************************************************)
(* Input domains.                                                          *)
(***************************************************************************)
Variants == {1, 2}            \* the two builds of the store in src/dyad.js
Keys == {"counter", "x"}
IndexKeys == <<"0", "1">>     \* the keys that are array indices, in ascending order
Types == {"INCREMENT", "DECREMENT", "X", "TYPE"}

(***************************************************************************)
(* JavaScript values stored in the model: numbers, undefined and NaN.      *)
(* Absent marks a key that an object does not hold (key in obj is false).   *)
(***************************************************************************)
Num(n) == [t |-> "number", n |-> n]
undefined == [t |-> "undefined", n |-> 0]
NaN == [t |-> "NaN", n |-> 0]
Absent == [t |-> "absent", n |-> 0]

\* obj[key]: an absent property reads as undefined
Read(obj, key) == IF obj[key] = Absent THEN undefined ELSE obj[key]

\* a !== b  (NaN differs from itself)
StrictNotEqual(a, b) == a # b \/ a = NaN

\* ++prevValue / --prevValue of the counter reducers
PlusOne(v) == IF v.t = "number" THEN Num(v.n + 1) ELSE NaN
MinusOne(v) == IF v.t = "number" THEN Num(v.n - 1) ELSE NaN

\* an edit function that raises: () => { throw new Error('edit') }
EditRaise == [e |-> "raise", v |-> undefined]
EditError == "edit"
Raises(edit) == edit.e = "raise"

\* typeof edit === 'function' ? edit(value) : edit
ApplyEdit(edit, value) ==
  CASE edit.e = "increment" -> PlusOne(value)
    [] edit.e = "decrement" -> MinusOne(value)
    [] OTHER -> edit.v

Lit(v) == [e |-> "literal", v |-> v]
EditIncrement == [e |-> "increment", v |-> undefined]
EditDecrement == [e |-> "decrement", v |-> undefined]

(***************************************************************************)
(* Actions given to dispatch.                                              *)
(***************************************************************************)
NoAction == [shape |-> "none", hasType |-> FALSE, type |-> "", payload |-> undefined,
             delay |-> FALSE, resolved |-> FALSE]
Act(type, payload, delay) ==
  [shape |-> "plain", hasType |-> TRUE, type |-> type, payload |-> payload, delay |-> delay,
   resolved |-> FALSE]

\* the values the scripts dispatch that are no action: new Date(), an instance of a
\* class that carries a type, the empty record {}, and an action built on
\* Object.create(null)
DateAction == [NoAction EXCEPT !.shape = "date"]
InstanceAction == [Act("X", Num(1), FALSE) EXCEPT !.shape = "instance"]
EmptyRecord == [NoAction EXCEPT !.shape = "plain"]
BareAction == [Act("X", Num(2), FALSE) EXCEPT !.shape = "bare"]

\* the values of the middleware tests that are no action either: a function
\* store => { store.get('x'); store.dispatch(inner) } and Promise.resolve(inner);
\* the record keeps the action inside, the value itself has no type property
ThunkOf(inner) == [inner EXCEPT !.shape = "function", !.hasType = FALSE]
PromiseOf(inner) == [inner EXCEPT !.shape = "promise", !.hasType = FALSE]
Inner(a) == [a EXCEPT !.shape = "plain", !.hasType = TRUE]

\* the prototype chain of a value, nearest first ("none" is undefined: it has none)
Prototypes(shape) ==
  CASE shape = "plain" -> <<"Object.prototype">>
    [] shape = "date" -> <<"Date.prototype", "Object.prototype">>
    [] shape = "instance" -> <<"Class.prototype", "Object.prototype">>
    [] shape = "function" -> <<"Function.prototype", "Object.prototype">>
    [] shape = "promise" -> <<"Promise.prototype", "Object.prototype">>
    [] OTHER -> <<>>

(***************************************************************************)
(* Error messages.  BT stands for the grave accent of the source's         *)
(* messages, which a string of this language cannot hold; the source's     *)
(* typographic apostrophe is written as the plain one.                     *)
(***************************************************************************)
BT == "^"
ReentrantMsg == "Reducers can't dispatch actions"
DoubleNextMsg(v) ==
  IF v = 1 THEN "next() called more than once"
  ELSE BT \o "next()" \o BT \o " called more than once"
NotPlainMsg == BT \o "action" \o BT \o " is not a plain object"
NoTypeMsg ==
  BT \o "action" \o BT \o " doesn't include a " \o BT \o "type" \o BT \o " property"
EmitMsg(key) == "Can't emit key '" \o key \o "' without setting it"

(***************************************************************************)
(* What a call hands back: a value (a promise when p is set) or a raise.   *)
(***************************************************************************)
NoRet == [st |-> "none", p |-> "", what |-> "", a |-> NoAction, v |-> undefined]
Throw(msg) == [NoRet EXCEPT !.st = "exc", !.what = msg]
Resolved(a) == [NoRet EXCEPT !.st = "val", !.p = "resolved", !.what = "action", !.a = a]
Rejected(msg) == [NoRet EXCEPT !.st = "val", !.p = "rejected", !.what = msg]
Plain(what) == [NoRet EXCEPT !.st = "val", !.what = what]
Value(v) == [NoRet EXCEPT !.st = "val", !.what = "value", !.v = v]

\* Promise.resolve(x): x itself when x is a promise, else a promise resolved with x
PromiseResolve(r) == IF r.p # "" THEN r ELSE [r EXCEPT !.p = "resolved"]

VARIABLES
  variant,          \* which build of the store runs
  gen,              \* number of initialize() calls so far (0: the constructor's)
  _model,           \* gen -> key -> value: this._model and the objects it replaced
  _keys,            \* gen -> the keys of the model in the order they were created
  _prevValueByKey,  \* gen -> key -> value or Absent
  _nextValueByKey,  \* gen -> key -> value or Absent (build 1 only)
  _emittingByKey,   \* key -> BOOLEAN
  _isDispatching,
  _middleware,      \* gen -> sequence of middleware
  _reducersByType,  \* type -> sequence of reducers
  listeners,        \* key -> sequence of listeners (the EventEmitter's)
  index,            \* per dispatch call: the closure variable index
  dispatched,       \* per dispatch call: its generation, its result, whether seen
  stack,            \* call stack, top last
  ret,              \* what the frame that just returned handed back
  microtasks,       \* promise reactions queued, head first
  timers,           \* pending setTimeout callbacks
  draining,         \* the script of this turn is over, reactions are running
  script,           \* position of the environment: "setup" or "run"
  registered,       \* type -> the reducers the script has bound since initialize, in order
  nCalls,           \* dispatch() and emit() calls the script has issued
  turnModel,        \* the model as it was when the current turn began
  staged,           \* key -> the values set staged in the current turn, in order
  notified,         \* listener invocations of the current turn, in order (n = 0: the
                    \* continuation a reducer attached to what set returned)
  issued,           \* types of the actions the script dispatched in the current turn
  fired,            \* the dispatch whose timer began the current turn, 0 when the script did
  lastCall          \* the script's last completed call and what it handed back

store == <<variant, gen, _model, _keys, _prevValueByKey, _nextValueByKey, _emittingByKey,
           _isDispatching, _middleware, _reducersByType, listeners>>
loop == <<index, dispatched, stack, ret, microtasks, timers, draining>>
ghost == <<script, registered, nCalls, turnModel, staged, notified, issued, fired, lastCall>>
vars == <<store, loop, ghost>>

Gens == 0 .. MaxInit
Range(seq) == {seq[p] : p \in 1 .. Len(seq)}
EmptyObject == [k \in Keys \cup Range(IndexKeys) |-> Absent]

\* Object.keys(obj) of an object whose keys were created in the given order: the array
\* indices in ascending order, then the other keys in the order of their creation
ObjectKeys(order) ==
  SelectSeq(IndexKeys, LAMBDA k : k \in Range(order))
  \o SelectSeq(order, LAMBDA k : k \notin Range(IndexKeys))

\* the orders in which the keys of an object literal can have been written
Literals(obj) ==
  LET present == {k \in DOMAIN obj : obj[k] # Absent}
  IN {order \in [1 .. Cardinality(present) -> present] :
        \A p, q \in DOMAIN order : p # q => order[p] # order[q]}

\* Store.keys() and Store.get(key)
keys == ObjectKeys(_keys[gen])
get(key) == Read(_model[gen], key)

(***************************************************************************)
(* Stack frames.  Every frame is a record of the same shape.               *)
(***************************************************************************)
Frame0 == [k |-> "", pc |-> "", d |-> 0, i |-> 0, j |-> 0, a |-> NoAction,
           key |-> "", v |-> undefined, g |-> 0, r |-> "", direct |-> FALSE]

Top == stack[Len(stack)]
Pop == SubSeq(stack, 1, Len(stack) - 1)
Running(k, pc) == stack # <<>> /\ Top.k = k /\ Top.pc = pc

\* the frame on top returns r to its caller; a root frame's value goes nowhere
Return(r) ==
  /\ stack' = Pop
  /\ ret' = IF Len(stack) = 1 THEN NoRet ELSE r

\* the frame on top moves to pc and calls callee
Call(pc, callee) ==
  /\ stack' = Append([stack EXCEPT ![Len(stack)].pc = pc], callee)
  /\ ret' = NoRet

\* the frame on top moves to pc without calling
Goto(f) ==
  /\ stack' = [stack EXCEPT ![Len(stack)] = f]
  /\ ret' = NoRet

(***************************************************************************)
(* Turns.  A turn is the script's synchronous code followed by the         *)
(* reactions it queued; the next turn starts when the queue has drained.   *)
(***************************************************************************)
ScriptMayRun == stack = <<>> /\ (~draining \/ microtasks = <<>>)
NewTurn == draining /\ microtasks = <<>>
TurnDone == stack = <<>> /\ microtasks = <<>> /\ draining

NoSets == [k \in Keys |-> <<>>]

\* the ghost variables of the turn, reset when the script starts a new turn
BeginTurn ==
  /\ draining' = FALSE
  /\ turnModel' = IF NewTurn THEN _model[gen] ELSE turnModel
  /\ staged' = IF NewTurn THEN NoSets ELSE staged
  /\ notified' = IF NewTurn THEN <<>> ELSE notified
  /\ fired' = IF NewTurn THEN 0 ELSE fired

\* the same, for the calls that are no dispatch
BeginTurnQuiet ==
  /\ BeginTurn
  /\ issued' = IF NewTurn THEN <<>> ELSE issued

(***************************************************************************)
(* Construction: new Store() calls initialize() with no model.             *)
(***************************************************************************)
Init ==
  /\ variant \in Variants
  /\ gen = 0
  /\ _model = [g \in Gens |-> EmptyObject]
  /\ _keys = [g \in Gens |-> <<>>]
  /\ _prevValueByKey = [g \in Gens |-> EmptyObject]
  /\ _nextValueByKey = [g \in Gens |-> EmptyObject]
  /\ _emittingByKey = [k \in Keys |-> FALSE]
  /\ _isDispatching = FALSE
  /\ _middleware = [g \in Gens |-> <<>>]
  /\ _reducersByType = [t \in Types |-> <<>>]
  /\ listeners = [k \in Keys |-> <<>>]
  /\ index = <<>>
  /\ dispatched = <<>>
  /\ stack = <<>>
  /\ ret = NoRet
  /\ microtasks = <<>>
  /\ timers = {}
  /\ draining = FALSE
  /\ script = "setup"
  /\ registered = [t \in Types |-> <<>>]
  /\ nCalls = 0
  /\ turnModel = EmptyObject
  /\ staged = NoSets
  /\ notified = <<>>
  /\ issued = <<>>
  /\ fired = 0
  /\ lastCall = [op |-> "none", key |-> "", d |-> 0, ret |-> NoRet]

(***************************************************************************)
(* Store.set(key, edit), its synchronous part.                             *)
(***************************************************************************)
\* model[key] = ...: a key the object does not hold yet is created after the others
Created(order, obj, key) == IF obj[key] = Absent THEN Append(order, key) ELSE order

\* a set that takes its snapshot on every call, not only on the first of the turn
SnapshotEveryCall(prev, key, value) == [prev EXCEPT ![key] = value]

\* if (!(key in prevValueByKey)) prevValueByKey[key] = value
Snapshot(prev, key, value) ==
  IF prev[key] = Absent THEN [prev EXCEPT ![key] = value] ELSE prev

\* the reaction Promise.resolve().then(...) queues: it keeps the objects it closed over
Reaction(key, g) == [Frame0 EXCEPT !.k = "then", !.pc = "enter", !.key = key, !.g = g]

\* a set that applies the edit to the snapshot of the turn, not to the model's value
setOnSnapshot(key, edit) ==
  LET value == Read(_model[gen], key)
      prev == Snapshot(_prevValueByKey[gen], key, value)
      computed == ApplyEdit(edit, prev[key])
  IN /\ _prevValueByKey' = [_prevValueByKey EXCEPT ![gen] = prev]
     /\ _model' = [_model EXCEPT ![gen][key] = computed]
     /\ _keys' = [_keys EXCEPT ![gen] = Created(@, _model[gen], key)]
     /\ _nextValueByKey' = IF variant = 1
                           THEN [_nextValueByKey EXCEPT ![gen][key] = computed]
                           ELSE _nextValueByKey
     /\ microtasks' = Append(microtasks, Reaction(key, gen))
     /\ staged' = [staged EXCEPT ![key] = Append(@, computed)]

\* a set that stages the value and leaves the model as it is until the reaction
setStaged(key, edit) ==
  LET value == Read(_model[gen], key)
      computed == ApplyEdit(edit, value)
  IN /\ _prevValueByKey' = [_prevValueByKey EXCEPT ![gen] = Snapshot(@, key, value)]
     /\ UNCHANGED <<_model, _keys>>
     /\ IF Raises(edit)
        THEN UNCHANGED <<_nextValueByKey, microtasks, staged>>
        ELSE /\ _nextValueByKey' = [_nextValueByKey EXCEPT ![gen][key] = computed]
             /\ microtasks' = Append(microtasks, Reaction(key, gen))
             /\ staged' = [staged EXCEPT ![key] = Append(@, computed)]

\* the snapshot is taken before the try block; an edit that raises leaves the rest undone
set(key, edit) ==
  LET value == Read(_model[gen], key)
      computed == ApplyEdit(edit, value)
  IN /\ _prevValueByKey' = [_prevValueByKey EXCEPT ![gen] = Snapshot(@, key, value)]
     /\ IF Raises(edit)
        THEN UNCHANGED <<_model, _keys, _nextValueByKey, microtasks, staged>>
        ELSE /\ _model' = [_model EXCEPT ![gen][key] = computed]
             /\ _keys' = [_keys EXCEPT ![gen] = Created(@, _model[gen], key)]
             /\ _nextValueByKey' = IF variant = 1
                                   THEN [_nextValueByKey EXCEPT ![gen][key] = computed]
                                   ELSE _nextValueByKey
             /\ microtasks' = Append(microtasks, Reaction(key, gen))
             /\ staged' = [staged EXCEPT ![key] = Append(@, computed)]

\* a set that lets the raise of the edit out
Uncaught(error) == Throw(error)

\* catch (error) { return Promise.reject(error) }
Caught(error) == Rejected(error)

\* what set returns: the promise of its reaction, not settled yet, or the rejected one
Pending == [NoRet EXCEPT !.st = "val", !.p = "pending", !.what = "value"]
Handle(edit) == IF Raises(edit) THEN Caught(EditError) ELSE Pending

\* the reaction of handle.then(onResolved, onRejected), attached by a reducer
ContinuationFrame(key, r) ==
  [Frame0 EXCEPT !.k = "continuation", !.pc = "enter", !.key = key, !.v = r.v,
                 !.r = IF r.st = "exc" \/ r.p = "rejected" THEN r.what ELSE ""]

\* a handle that is resolved when set returns: its continuation is queued ahead of
\* the reaction of set
AttachAhead(queue, key) ==
  SubSeq(queue, 1, Len(queue) - 1)
  \o <<ContinuationFrame(key, Value(Read(_model[gen], key))), queue[Len(queue)]>>

\* handle.then(...) on the promise of the reaction set has just queued
Attach(queue, key) == [queue EXCEPT ![Len(queue)].r = "continued"]

\* the promise of a reaction settles: the continuation attached to it is queued
Settle(queue, f, r) ==
  IF f.r = "continued" THEN Append(queue, ContinuationFrame(f.key, r)) ELSE queue

(***************************************************************************)
(* The reaction of set: the emission decision of the turn.                 *)
(***************************************************************************)
\* if (nextValue !== prevValue)
Changed(nextValue, prevValue) == StrictNotEqual(nextValue, prevValue)

EmitFrame(key, v, direct) ==
  [Frame0 EXCEPT !.k = "emit", !.pc = "enter", !.key = key, !.v = v, !.direct = direct]

\* a reaction that leaves the snapshot of the turn in place
NotCleared(prev, key) == prev

\* a reaction that deletes the record of every key
ClearedAll(prev, key) == EmptyObject

\* delete prevValueByKey[key]
Cleared(prev, key) == [prev EXCEPT ![key] = Absent]

\* build 2: the model holds the final value; the record of the turn is the previous one
Then2 ==
  LET f == Top
      nextValue == Read(_model[f.g], f.key)
      prevValue == _prevValueByKey[f.g][f.key]
  IN /\ UNCHANGED <<_model, _keys, _nextValueByKey>>
     /\ IF prevValue # Absent
        THEN /\ _prevValueByKey' = [_prevValueByKey EXCEPT ![f.g] = Cleared(@, f.key)]
             /\ IF Changed(nextValue, prevValue)
                THEN /\ _emittingByKey' = [_emittingByKey EXCEPT ![f.key] = TRUE]
                     /\ stack' = Append([stack EXCEPT ![Len(stack)].pc = "finally",
                                                       ![Len(stack)].v = nextValue],
                                         EmitFrame(f.key, nextValue, FALSE))
                     /\ ret' = NoRet
                ELSE /\ Return(Value(nextValue))
                     /\ UNCHANGED _emittingByKey
        ELSE /\ Return(Value(nextValue))
             /\ UNCHANGED <<_prevValueByKey, _emittingByKey>>

\* build 1: the final value is staged in _nextValueByKey and committed again here
Then1 ==
  LET f == Top
      nextValue == _nextValueByKey[f.g][f.key]
      prevValue == Read(_prevValueByKey[f.g], f.key)
  IN IF nextValue # Absent
     THEN /\ _prevValueByKey' = [_prevValueByKey EXCEPT ![f.g] = Cleared(@, f.key)]
          /\ _nextValueByKey' = [_nextValueByKey EXCEPT ![f.g][f.key] = Absent]
          /\ IF Changed(nextValue, prevValue)
             THEN /\ _model' = [_model EXCEPT ![f.g][f.key] = nextValue]
                  /\ _keys' = [_keys EXCEPT ![f.g] = Created(@, _model[f.g], f.key)]
                  /\ _emittingByKey' = [_emittingByKey EXCEPT ![f.key] = TRUE]
                  /\ stack' = Append([stack EXCEPT ![Len(stack)].pc = "finally",
                                                    ![Len(stack)].v = nextValue],
                                      EmitFrame(f.key, nextValue, FALSE))
                  /\ ret' = NoRet
             ELSE /\ Return(Value(Read(_model[f.g], f.key)))
                  /\ UNCHANGED <<_model, _keys, _emittingByKey>>
     ELSE /\ Return(Value(Read(_model[f.g], f.key)))
          /\ UNCHANGED <<_model, _keys, _prevValueByKey, _nextValueByKey, _emittingByKey>>

StepThen ==
  /\ Running("then", "enter")
  /\ IF variant = 1 THEN Then1 ELSE Then2
  /\ microtasks' = IF Len(stack') < Len(stack)
                   THEN Settle(microtasks, Top, Value(Read(_model[Top.g], Top.key)))
                   ELSE microtasks
  /\ UNCHANGED <<variant, gen, _isDispatching, _middleware, _reducersByType, listeners>>
  /\ UNCHANGED <<index, dispatched, timers, draining>>
  /\ UNCHANGED ghost

\* a flag lowered only when emit returns: try without finally
DisarmedOnReturn(r) == r.st = "exc"

\* finally { this._emittingByKey[key] = false }: the flag after emit came back with r
Disarmed(r) == FALSE

\* what the reaction returns after emit, the value its promise is fulfilled with
\* build 1: return model[key]
Fulfilment1(f) == Value(Read(_model[f.g], f.key))
\* build 2: return nextValue
Fulfilment2(f) == Value(f.v)

\* finally { this._emittingByKey[key] = false }, then the value or the raise goes on
StepThenFinally ==
  /\ Running("then", "finally")
  /\ ret.st # "none"
  /\ _emittingByKey' = [_emittingByKey EXCEPT ![Top.key] = Disarmed(ret)]
  /\ LET r == IF ret.st = "exc" THEN ret
              ELSE IF variant = 1 THEN Fulfilment1(Top) ELSE Fulfilment2(Top)
     IN /\ Return(r)
        /\ microtasks' = Settle(microtasks, Top, r)
  /\ UNCHANGED <<variant, gen, _model, _keys, _prevValueByKey, _nextValueByKey, _isDispatching,
                 _middleware, _reducersByType, listeners>>
  /\ UNCHANGED <<index, dispatched, timers, draining>>
  /\ UNCHANGED ghost

(***************************************************************************)
(* Store.emit(key, nextValue).                                             *)
(***************************************************************************)
\* an emit with no guard
EmitNeverRefused(key) == FALSE

\* if (!this._emittingByKey[key]) throw
EmitRefused(key) == ~_emittingByKey[key]

\* a listener that raises: store.on(key, () => { throw new Error('listener') }); the
\* EventEmitter calls the listeners in the order of their registration and a raise
\* leaves emit, so the listeners after it are not called
ListenerError == "listener"
ListenerRaises(key) == \E n \in 1 .. Len(listeners[key]) : listeners[key][n] = "raise"
Called(key) ==
  IF ListenerRaises(key)
  THEN CHOOSE n \in 1 .. Len(listeners[key]) :
         /\ listeners[key][n] = "raise"
         /\ \A m \in 1 .. n - 1 : listeners[key][m] # "raise"
  ELSE Len(listeners[key])

\* an emitter that calls the listeners of every key
DeliverToAll(key, v, direct) ==
  [n \in 1 .. Len(listeners["counter"]) |->
     [key |-> "counter", value |-> v, direct |-> direct, n |-> n]]
  \o [n \in 1 .. Len(listeners["x"]) |->
        [key |-> "x", value |-> v, direct |-> direct, n |-> n]]

\* super.emit(key, nextValue): every listener of the key is called with the value
Deliver(key, v, direct) ==
  [n \in 1 .. Called(key) |-> [key |-> key, value |-> v, direct |-> direct, n |-> n]]

\* a listener that dispatches: store.on(key, v => store.dispatch({type: 'X', payload: 0}));
\* the EventEmitter calls it in its turn, synchronously, inside emit
ListenerAction == Act("X", Num(0), FALSE)
Redispatches(key, i) ==
  \E n \in i + 1 .. Called(key) : listeners[key][n] = "dispatch"
FirstRedispatch(key, i) ==
  CHOOSE n \in i + 1 .. Called(key) :
    /\ listeners[key][n] = "dispatch"
    /\ \A m \in i + 1 .. n - 1 : listeners[key][m] # "dispatch"

\* the guard of emit, then the listeners not called yet (all of them, unless a
\* listener that dispatched has returned), none of which dispatches
StepEmit ==
  /\ Running("emit", "enter")
  /\ (Top.i = 0 /\ EmitRefused(Top.key)) \/ ~Redispatches(Top.key, Top.i)
  /\ IF Top.i = 0 /\ EmitRefused(Top.key)
     THEN /\ Return(Throw(EmitMsg(Top.key)))
          /\ UNCHANGED notified
     ELSE /\ notified' = notified \o SubSeq(Deliver(Top.key, Top.v, Top.direct),
                                            Top.i + 1, Called(Top.key))
          /\ Return(IF ListenerRaises(Top.key) THEN Throw(ListenerError)
                    ELSE Plain("boolean"))
  /\ UNCHANGED store
  /\ UNCHANGED <<index, dispatched, microtasks, timers, draining>>
  /\ UNCHANGED <<script, registered, nCalls, turnModel, staged, issued, fired, lastCall>>

(***************************************************************************)
(* Store.dispatch(action) and the chain function call(nextIndex,           *)
(* nextAction) it starts.                                                  *)
(***************************************************************************)
DispatchFrame(a) == [Frame0 EXCEPT !.k = "dispatch", !.pc = "enter", !.a = a]
CallFrame(d, i, a) == [Frame0 EXCEPT !.k = "call", !.pc = "enter", !.d = d, !.i = i, !.a = a]
MiddlewareFrame(m, d, i, a) ==
  [Frame0 EXCEPT !.k = "middleware", !.pc = "enter", !.r = m, !.d = d, !.i = i, !.a = a]
ReducerFrame(r, a) == [Frame0 EXCEPT !.k = "reducer", !.pc = "enter", !.r = r, !.a = a]
ObserveFrame(d) == [Frame0 EXCEPT !.k = "observe", !.pc = "enter", !.d = d]

\* a dispatch with no guard
GuardDown == FALSE

\* a guard that is up inside middleware as well
GuardInChain ==
  _isDispatching \/ \E p \in 1 .. Len(stack) : stack[p].k = "middleware"

\* if (this._isDispatching) throw
ReentrancyGuard == _isDispatching

\* what the model keeps of a dispatch call: the middleware array it closed over, what
\* its promise settled to and whether the script has seen it, the timer its result
\* cancels, and its history (indices call accepted, reducers run, cancel, second next)
\* and the reducers it invoked, in order
NewDispatch ==
  [g |-> gen, res |-> "", seen |-> FALSE, timer |-> 0,
   path |-> <<>>, runs |-> 0, ran |-> <<>>, cancel |-> "no", again |-> ""]

StepDispatch ==
  /\ Running("dispatch", "enter")
  /\ IF ReentrancyGuard
     THEN /\ Return(Throw(ReentrantMsg))
          /\ UNCHANGED <<index, dispatched>>
     ELSE /\ index' = Append(index, -1)
          /\ dispatched' = Append(dispatched, NewDispatch)
          /\ Goto(CallFrame(Len(index) + 1, 0, Top.a))
  /\ UNCHANGED store
  /\ UNCHANGED <<microtasks, timers, draining>>
  /\ UNCHANGED ghost

\* a chain function with no guard against a second next
NeverCalled(nextIndex, idx) == FALSE

\* if (nextIndex <= index) reject
AlreadyCalled(nextIndex, idx) == nextIndex <= idx

\* a check that takes every object for a plain one
isAnyObject(a) == a.shape # "none"

\* build 1: prototype === Object.prototype || prototype === null
\* build 2: the prototype of x is null or the last of its chain
isPlainObject(a) ==
  LET chain == Prototypes(a.shape)
  IN /\ a.shape # "none"
     /\ \/ chain = <<>>
        \/ IF variant = 1 THEN chain[1] = "Object.prototype"
           ELSE chain[1] = chain[Len(chain)]

\* a lookup that finds no reducer
NoReducers(type) == <<>>

\* a lookup that falls back on the reducers of X
ReducersOrX(type) == IF type \in Types THEN _reducersByType[type] ELSE _reducersByType["X"]

\* a validation that looks for the type first
ValidateTypeFirst(a) ==
  IF ~a.hasType THEN NoTypeMsg
  ELSE IF ~isPlainObject(a) THEN NotPlainMsg
  ELSE ""

\* if (!isPlainObject(nextAction)) reject; if (!('type' in nextAction)) reject
Validate(a) ==
  IF ~isPlainObject(a) THEN NotPlainMsg
  ELSE IF ~a.hasType THEN NoTypeMsg
  ELSE ""

\* self._reducersByType[type] || []
Reducers(type) == IF type \in Types THEN _reducersByType[type] ELSE <<>>

StepCall ==
  /\ Running("call", "enter")
  /\ LET f == Top
         mws == _middleware[dispatched[f.d].g]
     IN IF AlreadyCalled(f.i, index[f.d])
        THEN /\ Return(Rejected(DoubleNextMsg(variant)))
             /\ UNCHANGED <<index, dispatched>>
        ELSE /\ index' = [index EXCEPT ![f.d] = f.i]
             /\ dispatched' = [dispatched EXCEPT ![f.d].path = Append(@, f.i)]
             /\ IF f.i + 1 <= Len(mws)
                THEN Call("resolve", MiddlewareFrame(mws[f.i + 1], f.d, f.i + 1, f.a))
                ELSE IF Validate(f.a) # "" THEN Return(Rejected(Validate(f.a)))
                ELSE Goto([f EXCEPT !.pc = "forEach", !.j = 1])
  /\ UNCHANGED store
  /\ UNCHANGED <<microtasks, timers, draining>>
  /\ UNCHANGED ghost

\* reducers.forEach: try { self._isDispatching = true; reducer(get, set, nextAction) }
StepForEach ==
  /\ Running("call", "forEach")
  /\ LET f == Top
         reducers == Reducers(f.a.type)
     IN IF f.j > Len(reducers)
        THEN /\ Return(Resolved(f.a))
             /\ UNCHANGED <<_isDispatching, dispatched>>
        ELSE /\ _isDispatching' = TRUE
             /\ dispatched' = [dispatched EXCEPT ![f.d].runs = @ + 1,
                                                  ![f.d].ran = Append(@, reducers[f.j])]
             /\ Call("finally", ReducerFrame(reducers[f.j], f.a))
  /\ UNCHANGED <<variant, gen, _model, _keys, _prevValueByKey, _nextValueByKey, _emittingByKey,
                 _middleware, _reducersByType, listeners>>
  /\ UNCHANGED <<index, microtasks, timers, draining>>
  /\ UNCHANGED ghost

\* a flag lowered only when the reducer returns: try without finally
LoweredOnReturn(r) == r.st = "exc"

\* finally { self._isDispatching = false }: the flag after the reducer came back with r
Finally(r) == FALSE

\* a forEach that goes on with the next reducer after a raise
ForEachGoesOn(r) == FALSE

\* try { reducer(...) } finally { ... } has no catch: what the reducer raised leaves the
\* callback, forEach and call
LeavesForEach(r) == r.st = "exc"

\* finally { self._isDispatching = false }; a raise of the reducer leaves forEach and call
StepReducerFinally ==
  /\ Running("call", "finally")
  /\ ret.st # "none"
  /\ _isDispatching' = Finally(ret)
  /\ IF LeavesForEach(ret)
     THEN Return(ret)
     ELSE Goto([Top EXCEPT !.pc = "forEach", !.j = Top.j + 1])
  /\ UNCHANGED <<variant, gen, _model, _keys, _prevValueByKey, _nextValueByKey, _emittingByKey,
                 _middleware, _reducersByType, listeners>>
  /\ UNCHANGED <<index, dispatched, microtasks, timers, draining>>
  /\ UNCHANGED ghost

\* a chain function that lets the raise of a middleware out
CallRethrow(r) == r

\* catch (error) { return Promise.reject(error) }
CallCatch(r) == Rejected(r.what)

\* return Promise.resolve(nextMiddleware(...)); catch (error) { return Promise.reject(error) }
StepCallResolve ==
  /\ Running("call", "resolve")
  /\ ret.st # "none"
  /\ Return(IF ret.st = "exc" THEN CallCatch(ret) ELSE PromiseResolve(ret))
  /\ UNCHANGED store
  /\ UNCHANGED <<index, dispatched, microtasks, timers, draining>>
  /\ UNCHANGED ghost

(***************************************************************************)
(* Middleware.  "Defer" is the deferredActionMiddlware of the tests,       *)
(* "TwiceNext" the middleware of the test that calls next() twice, and     *)
(* "Rewrite" a middleware that hands next an action of its own:            *)
(* (action, next) => next({type: 'X', payload: 2}).  "Thunk" and           *)
(* "Thenable" are the thunkMiddleware and thenableActionMiddleware of the  *)
(* tests: they dispatch anew instead of calling next.                      *)
(***************************************************************************)
Middlewares == {"Rewrite", "Defer", "TwiceNext"}

Rewritten == Act("X", Num(2), FALSE)

\* what the middleware passes to next
NextArgument(m, a) == IF m = "Rewrite" THEN Rewritten ELSE a

\* a next that hands on the action it is called with
NextWithArgument(argument, nextAction) == argument

\* () => call(nextIndex, nextAction): next takes no parameter, the action handed on is
\* the one this call received
NextCapability(argument, nextAction) == nextAction

\* action && action.meta && typeof action.meta.delay === 'number'
Delayed(f) == f.r = "Defer" /\ f.a.delay

Timer(d, i, a) == [d |-> d, i |-> i, a |-> a]

\* a middleware that raises for TYPE and passes every other action on:
\* (action, next) => { if (action.type === 'TYPE') throw new Error('middleware');
\* return next(action) }
MiddlewareError == "middleware"
Fails(f) == f.r = "Raise" /\ f.a.type = "TYPE"

\* typeof action === 'function' (thunkMiddleware), or
\* action && typeof action.then === 'function' (thenableActionMiddleware)
Intercepts(f) ==
  \/ f.r = "Thunk" /\ f.a.shape = "function"
  \/ f.r = "Thenable" /\ f.a.shape = "promise"

\* the middleware calls next(...): return next(action), or next(action).then(...)
StepMiddlewareNext ==
  /\ Running("middleware", "enter")
  /\ ~Delayed(Top)
  /\ ~Intercepts(Top)
  /\ ~Fails(Top)
  /\ Call(IF Top.r = "TwiceNext" THEN "then" ELSE "return",
          CallFrame(Top.d, Top.i, NextCapability(NextArgument(Top.r, Top.a), Top.a)))
  /\ UNCHANGED store
  /\ UNCHANGED <<index, dispatched, microtasks, timers, draining>>
  /\ UNCHANGED ghost

\* return next(action): the promise of next, or its raise, is the middleware's
StepMiddlewareReturn ==
  /\ Running("middleware", "return")
  /\ ret.st # "none"
  /\ Return(ret)
  /\ UNCHANGED store
  /\ UNCHANGED <<index, dispatched, microtasks, timers, draining>>
  /\ UNCHANGED ghost

\* const timeoutId = setTimeout(() => next(action), delay); return () => clearTimeout(timeoutId)
StepMiddlewareDefer ==
  /\ Running("middleware", "enter")
  /\ Delayed(Top)
  /\ timers' = timers \cup {Timer(Top.d, Top.i, Top.a)}
  /\ Return([Plain("cancel") EXCEPT !.v = Num(Top.i)])
  /\ UNCHANGED store
  /\ UNCHANGED <<index, dispatched, microtasks, draining>>
  /\ UNCHANGED ghost

\* next(action).then(() => next(action)).then(...).catch(...): the reaction is queued
\* (the promise of next is settled), and the middleware returns undefined
StepMiddlewareThen ==
  /\ Running("middleware", "then")
  /\ ret.st # "none"
  /\ IF ret.st = "exc"
     THEN /\ Return(ret)
          /\ UNCHANGED microtasks
     ELSE /\ microtasks' =
               Append(microtasks,
                      [Top EXCEPT !.pc = "again",
                                  !.key = IF ret.p = "rejected" THEN ret.what ELSE ""])
          /\ Return(Plain("undefined"))
  /\ UNCHANGED store
  /\ UNCHANGED <<index, dispatched, timers, draining>>
  /\ UNCHANGED ghost

\* () => next(action), run as a reaction; a rejected first next skips it and goes to catch
StepMiddlewareAgain ==
  /\ Running("middleware", "again")
  /\ IF Top.key = ""
     THEN /\ Call("settle", CallFrame(Top.d, Top.i, NextCapability(Top.a, Top.a)))
          /\ UNCHANGED dispatched
     ELSE /\ dispatched' = [dispatched EXCEPT ![Top.d].again = Top.key]
          /\ Return(Plain("undefined"))
  /\ UNCHANGED store
  /\ UNCHANGED <<index, microtasks, timers, draining>>
  /\ UNCHANGED ghost

\* what the second next settled to reaches .then (resolved) or .catch (error.message)
StepMiddlewareSettle ==
  /\ Running("middleware", "settle")
  /\ ret.st # "none"
  /\ dispatched' = [dispatched EXCEPT ![Top.d].again =
                       IF ret.st = "exc" \/ ret.p = "rejected" THEN ret.what ELSE "resolved"]
  /\ Return(Plain("undefined"))
  /\ UNCHANGED store
  /\ UNCHANGED <<index, microtasks, timers, draining>>
  /\ UNCHANGED ghost

StepMiddlewareRaise ==
  /\ Running("middleware", "enter")
  /\ Fails(Top)
  /\ Return(Throw(MiddlewareError))
  /\ UNCHANGED store
  /\ UNCHANGED <<index, dispatched, microtasks, timers, draining>>
  /\ UNCHANGED ghost

\* thunkMiddleware: return action(store); the thunk reads 'x' and dispatches its action
StepMiddlewareThunk ==
  /\ Running("middleware", "enter")
  /\ Top.r = "Thunk"
  /\ Intercepts(Top)
  /\ stack' = Append([stack EXCEPT ![Len(stack)].pc = "thunk",
                                    ![Len(stack)].j = Len(index) + 1],
                      DispatchFrame(Inner(Top.a)))
  /\ ret' = NoRet
  /\ UNCHANGED store
  /\ UNCHANGED <<index, dispatched, microtasks, timers, draining>>
  /\ UNCHANGED ghost

\* the thunk drops the promise of its dispatch and returns undefined; a raise of the
\* dispatch leaves the thunk and the middleware
StepMiddlewareThunkReturn ==
  /\ Running("middleware", "thunk")
  /\ ret.st # "none"
  /\ Return(IF ret.st = "exc" THEN ret ELSE Plain("undefined"))
  /\ UNCHANGED store
  /\ UNCHANGED <<index, dispatched, microtasks, timers, draining>>
  /\ UNCHANGED ghost

\* the promise of action.then(...): settled when the reaction has run
Derived == [NoRet EXCEPT !.st = "val", !.p = "pending", !.what = "derived"]

\* thenableActionMiddleware: return action.then(r => ...); the action is a resolved
\* promise, so the reaction is queued at once
StepMiddlewareThenable ==
  /\ Running("middleware", "enter")
  /\ Top.r = "Thenable"
  /\ Intercepts(Top)
  /\ microtasks' = Append(microtasks, [Top EXCEPT !.pc = "resolved"])
  /\ Return(Derived)
  /\ UNCHANGED store
  /\ UNCHANGED <<index, dispatched, timers, draining>>
  /\ UNCHANGED ghost

\* r => store.dispatch(Object.assign(r, {meta: Object.assign(r.meta || {}, {resolved: true})}))
StepMiddlewareResolved ==
  /\ Running("middleware", "resolved")
  /\ stack' = Append([stack EXCEPT ![Len(stack)].pc = "adopt",
                                    ![Len(stack)].j = Len(index) + 1],
                      DispatchFrame([Inner(Top.a) EXCEPT !.resolved = TRUE]))
  /\ ret' = NoRet
  /\ UNCHANGED store
  /\ UNCHANGED <<index, dispatched, microtasks, timers, draining>>
  /\ UNCHANGED ghost

\* the derived promise settles as the promise of that dispatch did (or is rejected
\* with its raise): the reaction of the script's .then(...) is queued
StepMiddlewareAdopt ==
  /\ Running("middleware", "adopt")
  /\ ret.st # "none"
  /\ dispatched' = [dispatched EXCEPT ![Top.d].res = ret.what]
  /\ microtasks' = Append(microtasks, ObserveFrame(Top.d))
  /\ Return(Plain("undefined"))
  /\ UNCHANGED store
  /\ UNCHANGED <<index, timers, draining>>
  /\ UNCHANGED ghost

(***************************************************************************)
(* The reducers of the repository's tests and README.                      *)
(***************************************************************************)
\* INCREMENT: set('counter', prev => ++prev); DECREMENT: set('counter', prev => --prev);
\* X: set('x', action.payload)
ReducerKey(r) == IF r = "SetX" THEN "x" ELSE "counter"
ReducerEdit(r, a) ==
  CASE r = "Increment" -> EditIncrement
    [] r = "Decrement" -> EditDecrement
    [] OTHER -> Lit(a.payload)

StepReducerSet ==
  /\ Running("reducer", "enter")
  /\ Top.r \in {"Increment", "Decrement", "SetX"}
  /\ set(ReducerKey(Top.r), ReducerEdit(Top.r, Top.a))
  /\ Return(Plain("undefined"))
  /\ UNCHANGED <<variant, gen, _emittingByKey, _isDispatching, _middleware,
                 _reducersByType, listeners>>
  /\ UNCHANGED <<index, dispatched, timers, draining>>
  /\ UNCHANGED <<script, registered, nCalls, turnModel, notified, issued, fired, lastCall>>

\* X: set('x', action.payload).then(...); the reducer of an edit that raises:
\* set('x', () => { throw new Error('edit') }).then(..., ...)
HandleEdit(r, a) == IF r = "RaiseX" THEN EditRaise ELSE Lit(a.payload)

StepReducerSetHandle ==
  /\ Running("reducer", "enter")
  /\ Top.r \in {"SetXThen", "RaiseX"}
  /\ set("x", HandleEdit(Top.r, Top.a))
  /\ stack' = [stack EXCEPT ![Len(stack)].pc = "attach"]
  /\ ret' = Handle(HandleEdit(Top.r, Top.a))
  /\ UNCHANGED <<variant, gen, _emittingByKey, _isDispatching, _middleware,
                 _reducersByType, listeners>>
  /\ UNCHANGED <<index, dispatched, timers, draining>>
  /\ UNCHANGED <<script, registered, nCalls, turnModel, notified, issued, fired, lastCall>>

\* .then(...) on what set returned; a set that raised has returned nothing
StepReducerAttach ==
  /\ Running("reducer", "attach")
  /\ ret.st # "none"
  /\ IF ret.st = "exc"
     THEN /\ Return(ret)
          /\ UNCHANGED microtasks
     ELSE /\ Return(Plain("undefined"))
          /\ microtasks' = IF ret.p = "rejected"
                           THEN Append(microtasks, ContinuationFrame("x", ret))
                           ELSE Attach(microtasks, "x")
  /\ UNCHANGED store
  /\ UNCHANGED <<index, dispatched, timers, draining>>
  /\ UNCHANGED ghost

\* the continuation runs: it is handed the value of the handle, or the error
Settled(f) ==
  [key |-> f.key, value |-> IF f.r = "" THEN f.v ELSE [t |-> "error", n |-> 0],
   direct |-> FALSE, n |-> 0]

StepContinuation ==
  /\ Running("continuation", "enter")
  /\ notified' = Append(notified, Settled(Top))
  /\ Return(Plain("undefined"))
  /\ UNCHANGED store
  /\ UNCHANGED <<index, dispatched, microtasks, timers, draining>>
  /\ UNCHANGED <<script, registered, nCalls, turnModel, staged, issued, fired, lastCall>>

\* a reducer that raises: () => { throw new Error('reducer') }
ReducerError == "reducer"

StepReducerFail ==
  /\ Running("reducer", "enter")
  /\ Top.r = "Fail"
  /\ Return(Throw(ReducerError))
  /\ UNCHANGED store
  /\ UNCHANGED <<index, dispatched, microtasks, timers, draining>>
  /\ UNCHANGED ghost

\* a reducer that sets and then raises:
\* (get, set, action) => { set('x', action.payload); throw new Error('reducer') }
StepReducerSetFail ==
  /\ Running("reducer", "enter")
  /\ Top.r = "SetXFail"
  /\ set("x", Lit(Top.a.payload))
  /\ Return(Throw(ReducerError))
  /\ UNCHANGED <<variant, gen, _emittingByKey, _isDispatching, _middleware,
                 _reducersByType, listeners>>
  /\ UNCHANGED <<index, dispatched, timers, draining>>
  /\ UNCHANGED <<script, registered, nCalls, turnModel, notified, issued, fired, lastCall>>

\* TYPE: expect(() => store.dispatch({type: 'TYPE'})).to.throw(...)
StepReducerRedispatch ==
  /\ Running("reducer", "enter")
  /\ Top.r = "Redispatch"
  /\ Call("catch", DispatchFrame(Act("TYPE", undefined, FALSE)))
  /\ UNCHANGED store
  /\ UNCHANGED <<index, dispatched, microtasks, timers, draining>>
  /\ UNCHANGED ghost

\* the reducer has caught what the inner dispatch raised; had it raised nothing,
\* the expectation fails and the reducer raises
StepReducerCatch ==
  /\ Running("reducer", "catch")
  /\ ret.st # "none"
  /\ Return(IF ret.st = "exc" THEN Plain("undefined") ELSE Throw("AssertionError"))
  /\ UNCHANGED store
  /\ UNCHANGED <<index, dispatched, microtasks, timers, draining>>
  /\ UNCHANGED ghost

(***************************************************************************)
(* A listener that dispatches while emit is calling the listeners.         *)
(***************************************************************************)
\* the listeners before the one that dispatches have been called; it is called and
\* calls store.dispatch
StepEmitListener ==
  /\ Running("emit", "enter")
  /\ Top.i > 0 \/ ~EmitRefused(Top.key)
  /\ Redispatches(Top.key, Top.i)
  /\ LET n == FirstRedispatch(Top.key, Top.i)
     IN /\ notified' = notified \o SubSeq(Deliver(Top.key, Top.v, Top.direct), Top.i + 1, n)
        /\ stack' = Append([stack EXCEPT ![Len(stack)].pc = "listener",
                                          ![Len(stack)].i = n],
                            DispatchFrame(ListenerAction))
        /\ ret' = NoRet
  /\ UNCHANGED store
  /\ UNCHANGED <<index, dispatched, microtasks, timers, draining>>
  /\ UNCHANGED <<script, registered, nCalls, turnModel, staged, issued, fired, lastCall>>

\* the listener drops the promise of its dispatch and returns; a raise of the
\* dispatch leaves the listener and emit
StepEmitListenerReturn ==
  /\ Running("emit", "listener")
  /\ ret.st # "none"
  /\ IF ret.st = "exc"
     THEN Return(ret)
     ELSE /\ stack' = [stack EXCEPT ![Len(stack)].pc = "enter"]
          /\ ret' = NoRet
  /\ UNCHANGED store
  /\ UNCHANGED <<index, dispatched, microtasks, timers, draining>>
  /\ UNCHANGED ghost

(***************************************************************************)
(* The event loop: promise reactions run one at a time, head first, when   *)
(* the call stack is empty.                                                *)
(***************************************************************************)
\* promise reactions that run at once, on top of the call that queued them
RunReactionAtOnce ==
  /\ microtasks # <<>>
  /\ ret.st = "none"
  /\ stack' = Append(stack, Head(microtasks))
  /\ microtasks' = Tail(microtasks)
  /\ draining' = TRUE
  /\ UNCHANGED store
  /\ UNCHANGED <<index, dispatched, ret, timers>>
  /\ UNCHANGED ghost

\* promise reactions that run last in, first out
RunLastMicrotask ==
  /\ stack = <<>>
  /\ microtasks # <<>>
  /\ stack' = <<microtasks[Len(microtasks)]>>
  /\ microtasks' = SubSeq(microtasks, 1, Len(microtasks) - 1)
  /\ draining' = TRUE
  /\ UNCHANGED store
  /\ UNCHANGED <<index, dispatched, ret, timers>>
  /\ UNCHANGED ghost

RunMicrotask ==
  /\ stack = <<>>
  /\ microtasks # <<>>
  /\ stack' = <<Head(microtasks)>>
  /\ microtasks' = Tail(microtasks)
  /\ draining' = TRUE
  /\ UNCHANGED store
  /\ UNCHANGED <<index, dispatched, ret, timers>>
  /\ UNCHANGED ghost

\* a timer that never elapses
NeverElapsed(t) == FALSE

\* the delay of a pending timer elapses at some time
Elapsed(t) == TRUE

\* a timer callback () => next(action) runs as a task of its own: a new turn
FireTimer ==
  /\ stack = <<>>
  /\ microtasks = <<>>
  /\ \E t \in timers :
       /\ Elapsed(t)
       /\ timers' = timers \ {t}
       /\ stack' = <<CallFrame(t.d, t.i, NextCapability(t.a, t.a))>>
       /\ fired' = t.d
  /\ ret' = NoRet
  /\ draining' = TRUE
  /\ turnModel' = _model[gen]
  /\ staged' = NoSets
  /\ notified' = <<>>
  /\ issued' = <<>>
  /\ UNCHANGED store
  /\ UNCHANGED <<index, dispatched, microtasks>>
  /\ UNCHANGED <<script, registered, nCalls, lastCall>>

(***************************************************************************)
(* The environment: the script that uses the store.  It configures the     *)
(* store (initialize, use, bind, on) and then dispatches; every dispatch   *)
(* is followed by .then(...), which observes what the promise settled to.  *)
(***************************************************************************)
ScriptFrame(op, d, key, a) ==
  [Frame0 EXCEPT !.k = "script", !.pc = "await", !.r = op, !.d = d, !.key = key, !.a = a]

SeedModels == {[EmptyObject EXCEPT !["counter"] = Num(0)]}

\* the configuration initialize() leaves: nothing bound, used or listening
Unconfigured ==
  /\ \A t \in Types : _reducersByType[t] = <<>>
  /\ \A k \in Keys : listeners[k] = <<>>
  /\ _middleware[gen] = <<>>

\* an initialize that replaces the model and keeps the rest of the store
initializeModel(model) ==
  /\ gen' = gen + 1
  /\ _model' = [_model EXCEPT ![gen + 1] = model]
  /\ \E literal \in Literals(model) :
       _keys' = [_keys EXCEPT ![gen + 1] = ObjectKeys(literal)]
  /\ _middleware' = [_middleware EXCEPT ![gen + 1] = _middleware[gen]]
  /\ _nextValueByKey' = [_nextValueByKey EXCEPT ![gen + 1] = _nextValueByKey[gen]]
  /\ _prevValueByKey' = [_prevValueByKey EXCEPT ![gen + 1] = _prevValueByKey[gen]]
  /\ UNCHANGED <<_emittingByKey, _isDispatching, _reducersByType, listeners>>

\* Store.initialize(model)
initialize(model) ==
  /\ gen' = gen + 1
  /\ _emittingByKey' = [k \in Keys |-> FALSE]
  /\ _isDispatching' = FALSE
  /\ _middleware' = [_middleware EXCEPT ![gen + 1] = <<>>]
  /\ _model' = [_model EXCEPT ![gen + 1] = model]
  /\ \E literal \in Literals(model) :
       _keys' = [_keys EXCEPT ![gen + 1] = ObjectKeys(literal)]
  /\ _nextValueByKey' = [_nextValueByKey EXCEPT ![gen + 1] = EmptyObject]
  /\ _prevValueByKey' = [_prevValueByKey EXCEPT ![gen + 1] = EmptyObject]
  /\ _reducersByType' = [t \in Types |-> <<>>]
  /\ listeners' = [k \in Keys |-> <<>>]

\* the script initializes the store once, before it configures it
Initialize(model) ==
  /\ ScriptMayRun
  /\ script = "setup"
  /\ Unconfigured
  /\ gen = 0
  /\ gen < MaxInit
  /\ initialize(model)
  /\ draining' = FALSE
  /\ turnModel' = model
  /\ staged' = NoSets
  /\ notified' = <<>>
  /\ issued' = <<>>
  /\ fired' = 0
  /\ registered' = [t \in Types |-> <<>>]
  /\ UNCHANGED variant
  /\ UNCHANGED <<index, dispatched, stack, ret, microtasks, timers>>
  /\ UNCHANGED <<script, nCalls, lastCall>>

\* the script initializes the store again, at any time between its calls (the
\* afterEach hook of the tests), and configures it anew
Reinitialize(model) ==
  /\ ScriptMayRun
  /\ gen < MaxInit
  /\ initialize(model)
  /\ script' = "setup"
  /\ registered' = [t \in Types |-> <<>>]
  /\ draining' = FALSE
  /\ turnModel' = model
  /\ staged' = NoSets
  /\ notified' = IF NewTurn THEN <<>> ELSE notified
  /\ issued' = Append(IF NewTurn THEN <<>> ELSE issued, "initialize")
  /\ fired' = 0
  /\ UNCHANGED variant
  /\ UNCHANGED <<index, dispatched, stack, ret, microtasks, timers>>
  /\ UNCHANGED <<nCalls, lastCall>>

\* the bindings of the tests: one reducer per type
Bindings ==
  [t \in Types |-> CASE t = "INCREMENT" -> "Increment"
                     [] t = "DECREMENT" -> "Decrement"
                     [] t = "X" -> "SetX"
                     [] OTHER -> "Redispatch"]

\* a bind that replaces the reducers of a type
bindLast(actions) ==
  _reducersByType' = [t \in Types |-> IF t \in DOMAIN actions
                                      THEN <<actions[t]>>
                                      ELSE _reducersByType[t]]

\* Store.bind(actions)
bind(actions) ==
  _reducersByType' = [t \in Types |-> IF t \in DOMAIN actions
                                      THEN Append(_reducersByType[t], actions[t])
                                      ELSE _reducersByType[t]]

Bind(actions) ==
  /\ ScriptMayRun
  /\ script = "setup"
  /\ \A t \in DOMAIN actions : _reducersByType[t] = <<>>
  /\ bind(actions)
  /\ registered' = [t \in Types |-> IF t \in DOMAIN actions
                                     THEN Append(registered[t], actions[t])
                                     ELSE registered[t]]
  /\ BeginTurnQuiet
  /\ UNCHANGED <<variant, gen, _model, _keys, _prevValueByKey, _nextValueByKey, _emittingByKey,
                 _isDispatching, _middleware, listeners>>
  /\ UNCHANGED <<index, dispatched, stack, ret, microtasks, timers>>
  /\ UNCHANGED <<script, nCalls, lastCall>>

\* the script binds more reducers, at any time between its calls
Rebind(actions) ==
  /\ ScriptMayRun
  /\ \A t \in DOMAIN actions : Len(_reducersByType[t]) < MaxBinds
  /\ bind(actions)
  /\ registered' = [t \in Types |-> IF t \in DOMAIN actions
                                     THEN Append(registered[t], actions[t])
                                     ELSE registered[t]]
  /\ BeginTurnQuiet
  /\ UNCHANGED <<variant, gen, _model, _keys, _prevValueByKey, _nextValueByKey, _emittingByKey,
                 _isDispatching, _middleware, listeners>>
  /\ UNCHANGED <<index, dispatched, stack, ret, microtasks, timers>>
  /\ UNCHANGED <<script, nCalls, lastCall>>

\* store.on(key, listener), the EventEmitter's
On(key) ==
  /\ ScriptMayRun
  /\ script = "setup"
  /\ Len(listeners[key]) < MaxListeners
  /\ listeners' = [listeners EXCEPT ![key] = Append(@, "record")]
  /\ BeginTurnQuiet
  /\ UNCHANGED <<variant, gen, _model, _keys, _prevValueByKey, _nextValueByKey, _emittingByKey,
                 _isDispatching, _middleware, _reducersByType>>
  /\ UNCHANGED <<index, dispatched, stack, ret, microtasks, timers>>
  /\ UNCHANGED <<script, registered, nCalls, lastCall>>

\* store.on(key, listener) with a listener that raises
OnRaise(key) ==
  /\ ScriptMayRun
  /\ script = "setup"
  /\ Len(listeners[key]) < MaxListeners
  /\ listeners' = [listeners EXCEPT ![key] = Append(@, "raise")]
  /\ BeginTurnQuiet
  /\ UNCHANGED <<variant, gen, _model, _keys, _prevValueByKey, _nextValueByKey, _emittingByKey,
                 _isDispatching, _middleware, _reducersByType>>
  /\ UNCHANGED <<index, dispatched, stack, ret, microtasks, timers>>
  /\ UNCHANGED <<script, registered, nCalls, lastCall>>

\* Store.use(middleware)
use(middleware) ==
  _middleware' = [_middleware EXCEPT ![gen] = Append(@, middleware)]

Use(middleware) ==
  /\ ScriptMayRun
  /\ script = "setup"
  /\ Len(_middleware[gen]) < MaxMiddleware
  /\ use(middleware)
  /\ BeginTurnQuiet
  /\ UNCHANGED <<variant, gen, _model, _keys, _prevValueByKey, _nextValueByKey, _emittingByKey,
                 _isDispatching, _reducersByType, listeners>>
  /\ UNCHANGED <<index, dispatched, stack, ret, microtasks, timers>>
  /\ UNCHANGED <<script, registered, nCalls, lastCall>>

\* a clearTimeout that clears nothing
clearNothing(ts, d, i) == ts

\* clearTimeout(timeoutId)
clearTimeout(ts, d, i) == {t \in ts : ~(t.d = d /\ t.i = i)}

\* the script calls the cancel() it was handed for dispatch d
Cancel(d) ==
  /\ ScriptMayRun
  /\ d \in 1 .. Len(dispatched)
  /\ dispatched[d].seen
  /\ dispatched[d].res = "cancel"
  /\ dispatched[d].cancel = "no"
  /\ timers' = clearTimeout(timers, d, dispatched[d].timer)
  /\ dispatched' = [dispatched EXCEPT ![d].cancel =
                       IF \E t \in timers : t.d = d /\ t.i = dispatched[d].timer
                       THEN "in time" ELSE "late"]
  /\ BeginTurnQuiet
  /\ UNCHANGED store
  /\ UNCHANGED <<index, stack, ret, microtasks>>
  /\ UNCHANGED <<script, registered, nCalls, lastCall>>

\* the script has bound its reducers
\* store.on(key, listener) with a listener that dispatches
OnDispatch(key) ==
  /\ ScriptMayRun
  /\ script = "setup"
  /\ Len(listeners[key]) < MaxListeners
  /\ listeners' = [listeners EXCEPT ![key] = Append(@, "dispatch")]
  /\ BeginTurnQuiet
  /\ UNCHANGED <<variant, gen, _model, _keys, _prevValueByKey, _nextValueByKey, _emittingByKey,
                 _isDispatching, _middleware, _reducersByType>>
  /\ UNCHANGED <<index, dispatched, stack, ret, microtasks, timers>>
  /\ UNCHANGED <<script, registered, nCalls, lastCall>>

Bound == \A t \in Types : _reducersByType[t] # <<>>

\* the script has initialized the store, bound its reducers and used a middleware
Deferring == gen > 0 /\ Bound /\ _middleware[gen] # <<>>

\* store.dispatch(action).then(...)
Dispatch(a) ==
  /\ ScriptMayRun
  /\ nCalls' = nCalls + 1
  /\ stack' = <<ScriptFrame("dispatch", Len(index) + 1, "", a), DispatchFrame(a)>>
  /\ ret' = NoRet
  /\ script' = "run"
  /\ BeginTurn
  /\ issued' = Append(IF NewTurn THEN <<>> ELSE issued, a.type)
  /\ UNCHANGED store
  /\ UNCHANGED <<index, dispatched, microtasks, timers>>
  /\ UNCHANGED <<registered, lastCall>>

\* store.emit(key, value) called by the script itself
Emit(key, v) ==
  /\ ScriptMayRun
  /\ nCalls' = nCalls + 1
  /\ stack' = <<ScriptFrame("emit", 0, key, NoAction), EmitFrame(key, v, TRUE)>>
  /\ ret' = NoRet
  /\ script' = "run"
  /\ BeginTurnQuiet
  /\ UNCHANGED store
  /\ UNCHANGED <<index, dispatched, microtasks, timers>>
  /\ UNCHANGED <<registered, lastCall>>

\* the script's call has come back: a raise is caught by the script, a promise gets
\* its .then(...) reaction
StepScript ==
  /\ Running("script", "await")
  /\ ret.st # "none"
  /\ lastCall' = [op |-> Top.r, key |-> Top.key, d |-> Top.d, ret |-> ret]
  /\ IF Top.r = "dispatch" /\ ret.st = "val"
     THEN /\ dispatched' = [dispatched EXCEPT ![Top.d].res = ret.what,
                                               ![Top.d].timer = ret.v.n]
          /\ microtasks' = IF ret.p = "pending" THEN microtasks
                           ELSE Append(microtasks, ObserveFrame(Top.d))
     ELSE UNCHANGED <<dispatched, microtasks>>
  /\ stack' = Pop
  /\ ret' = NoRet
  /\ UNCHANGED store
  /\ UNCHANGED <<index, timers, draining>>
  /\ UNCHANGED <<script, registered, nCalls, turnModel, staged, notified, issued, fired>>

\* the reaction of the script's .then(...): the script now holds the settled value
StepObserve ==
  /\ Running("observe", "enter")
  /\ dispatched' = [dispatched EXCEPT ![Top.d].seen = TRUE]
  /\ Return(Plain("undefined"))
  /\ UNCHANGED store
  /\ UNCHANGED <<index, microtasks, timers, draining>>
  /\ UNCHANGED ghost

(***************************************************************************)
(* The store without middleware.                                           *)
(***************************************************************************)
Payloads == {Num(1), Num(2)}
Actions == {Act("INCREMENT", undefined, FALSE), Act("DECREMENT", undefined, FALSE),
            Act("TYPE", undefined, FALSE)}
           \cup {Act("X", v, FALSE) : v \in Payloads}

Step ==
  \/ StepDispatch
  \/ StepCall
  \/ StepForEach
  \/ StepReducerFinally
  \/ StepReducerSet
  \/ StepReducerRedispatch
  \/ StepReducerCatch
  \/ StepThen
  \/ StepThenFinally
  \/ StepEmit
  \/ StepScript
  \/ StepObserve

Next ==
  \/ \E model \in SeedModels : Initialize(model)
  \/ Bind(Bindings)
  \/ \E key \in Keys : On(key)
  \/ \E a \in Actions : nCalls < MaxCalls /\ Bound /\ Dispatch(a)
  \/ \E key \in Keys : nCalls < MaxCalls /\ Emit(key, Num(1))
  \/ RunMicrotask
  \/ Step

Spec == Init /\ [][Next]_vars

(***************************************************************************)
(* The counter of the README: initialize({counter: c}), the INCREMENT and  *)
(* DECREMENT reducers, a listener of 'counter', and dispatches of the two  *)
(* actions in any order and in any number of turns.                        *)
(***************************************************************************)
CounterModels == {[EmptyObject EXCEPT !["counter"] = Num(c)] : c \in {0, 1}}
CounterActions == {Act("INCREMENT", undefined, FALSE), Act("DECREMENT", undefined, FALSE)}

StepCounter ==
  \/ StepDispatch
  \/ StepCall
  \/ StepForEach
  \/ StepReducerFinally
  \/ StepReducerSet
  \/ StepThen
  \/ StepThenFinally
  \/ StepEmit
  \/ StepScript
  \/ StepObserve

NextCounter ==
  \/ \E model \in CounterModels : Initialize(model)
  \/ Bind(Bindings)
  \/ On("counter")
  \/ \E a \in CounterActions : nCalls < MaxCounterOps /\ Bound /\ Dispatch(a)
  \/ RunMicrotask
  \/ StepCounter

SpecCounter == Init /\ [][NextCounter]_vars

(***************************************************************************)
(* The store with middleware: any chain of the three middleware, the       *)
(* reducers of the tests, a listener of 'x', and dispatches of X (at       *)
(* once or delayed) and of TYPE.                                           *)
(***************************************************************************)
MwModels == {[EmptyObject EXCEPT !["x"] = Num(0)]}
MwActions == {Act("X", Num(1), FALSE), Act("X", Num(1), TRUE), Act("TYPE", undefined, FALSE)}

StepMiddleware ==
  \/ StepCallResolve
  \/ StepMiddlewareNext
  \/ StepMiddlewareReturn
  \/ StepMiddlewareDefer
  \/ StepMiddlewareThen
  \/ StepMiddlewareAgain
  \/ StepMiddlewareSettle

StepMw ==
  \/ StepDispatch
  \/ StepCall
  \/ StepForEach
  \/ StepReducerFinally
  \/ StepReducerSet
  \/ StepReducerRedispatch
  \/ StepReducerCatch
  \/ StepThen
  \/ StepThenFinally
  \/ StepEmit
  \/ StepScript
  \/ StepObserve
  \/ StepMiddleware

NextMw ==
  \/ \E model \in MwModels : Initialize(model)
  \/ \E m \in Middlewares : Use(m)
  \/ Bind(Bindings)
  \/ On("x")
  \/ \E a \in MwActions : nCalls < MaxMwCalls /\ gen > 0 /\ Bound /\ Dispatch(a)
  \/ \E d \in 1 .. MaxMwCalls : Cancel(d)
  \/ FireTimer
  \/ RunMicrotask
  \/ StepMw

SpecMw == Init /\ [][NextMw]_vars

(***************************************************************************)
(* The deferred action of the tests: the Defer middleware, the X reducer,  *)
(* a listener of 'x', dispatches of X at once or delayed, and cancel().    *)
(* The event loop runs every task that is ready: the fairness below.       *)
(***************************************************************************)
DeferActions == {Act("X", Num(1), FALSE), Act("X", Num(1), TRUE)}

StepDefer ==
  \/ StepDispatch
  \/ StepCall
  \/ StepCallResolve
  \/ StepForEach
  \/ StepReducerFinally
  \/ StepReducerSet
  \/ StepMiddlewareNext
  \/ StepMiddlewareReturn
  \/ StepMiddlewareDefer
  \/ StepThen
  \/ StepThenFinally
  \/ StepEmit
  \/ StepScript
  \/ StepObserve

NextDefer ==
  \/ \E model \in MwModels : Initialize(model)
  \/ Use("Defer")
  \/ Bind(Bindings)
  \/ On("x")
  \/ \E a \in DeferActions : nCalls < MaxDeferCalls /\ Deferring /\ Dispatch(a)
  \/ \E d \in 1 .. MaxDeferCalls : Cancel(d)
  \/ FireTimer
  \/ RunMicrotask
  \/ StepDefer

FairSpecDefer ==
  /\ Init
  /\ [][NextDefer]_vars
  /\ WF_vars(FireTimer)
  /\ WF_vars(RunMicrotask)
  /\ WF_vars(StepDefer)

(***************************************************************************)
(* Any value dispatched: a Date, an instance of a class, the empty record, *)
(* an action of a type nothing is bound to, and actions of X, through a    *)
(* chain of middleware that pass the action on.                            *)
(***************************************************************************)
ShapeActions == {DateAction, InstanceAction, EmptyRecord, BareAction,
                 Act("NONE", undefined, FALSE), Act("X", Num(1), FALSE)}

StepShape ==
  \/ StepDispatch
  \/ StepCall
  \/ StepCallResolve
  \/ StepForEach
  \/ StepReducerFinally
  \/ StepReducerSet
  \/ StepMiddlewareNext
  \/ StepMiddlewareReturn
  \/ StepThen
  \/ StepThenFinally
  \/ StepEmit
  \/ StepScript
  \/ StepObserve

NextShape ==
  \/ \E model \in MwModels : Initialize(model)
  \/ Use("Defer")
  \/ Bind(Bindings)
  \/ On("x")
  \/ \E a \in ShapeActions : nCalls < MaxShapeCalls /\ Bound /\ Dispatch(a)
  \/ RunMicrotask
  \/ StepShape

SpecShape == Init /\ [][NextShape]_vars

(***************************************************************************)
(* The store initialized again: the script configures the store (with      *)
(* middleware, at first), dispatches X, calls initialize(model) at any     *)
(* time between its calls (with writes pending or not), and binds,         *)
(* listens and dispatches anew.                                            *)
(***************************************************************************)
ResetModels ==
  {EmptyObject,
   [EmptyObject EXCEPT !["x"] = Num(1), !["0"] = Num(0)],
   [EmptyObject EXCEPT !["1"] = Num(1), !["0"] = Num(0)]}

NextReset ==
  \/ \E model \in ResetModels : Reinitialize(model)
  \/ gen = 0 /\ Use("Defer")
  \/ Bind(Bindings)
  \/ On("x")
  \/ nCalls < MaxResetCalls /\ Bound /\ Dispatch(Act("X", Num(1), FALSE))
  \/ RunMicrotask
  \/ StepShape

SpecReset == Init /\ [][NextReset]_vars

(***************************************************************************)
(* Reducers that keep what set returns: X sets 'x' and attaches a          *)
(* continuation to the handle (the test "emits on dispatch()"), TYPE sets  *)
(* 'x' with an edit that raises, INCREMENT and DECREMENT edit 'counter'.   *)
(***************************************************************************)
HandleBindings ==
  [t \in Types |-> CASE t = "INCREMENT" -> "Increment"
                     [] t = "DECREMENT" -> "Decrement"
                     [] t = "X" -> "SetXThen"
                     [] OTHER -> "RaiseX"]

HandleModels == {[EmptyObject EXCEPT !["x"] = Num(0), !["counter"] = Num(0)]}

HandleActions == {Act("X", Num(1), FALSE), Act("X", Num(0), FALSE),
                  Act("TYPE", undefined, FALSE), Act("INCREMENT", undefined, FALSE)}

StepHandle ==
  \/ StepDispatch
  \/ StepCall
  \/ StepForEach
  \/ StepReducerFinally
  \/ StepReducerSet
  \/ StepReducerSetHandle
  \/ StepReducerAttach
  \/ StepContinuation
  \/ StepThen
  \/ StepThenFinally
  \/ StepEmit
  \/ StepScript
  \/ StepObserve

NextHandle ==
  \/ \E model \in HandleModels : Initialize(model)
  \/ Bind(HandleBindings)
  \/ \E key \in Keys : On(key)
  \/ \E a \in HandleActions : nCalls < MaxHandleCalls /\ gen > 0 /\ Bound /\ Dispatch(a)
  \/ RunMicrotask
  \/ StepHandle

SpecHandle == Init /\ [][NextHandle]_vars

(***************************************************************************)
(* Reducers bound again and again: every bind names one or two types; the  *)
(* script binds, initializes the store (what was bound before is gone),    *)
(* binds again, and then dispatches X, with more binds between two turns.  *)
(***************************************************************************)
BindCalls ==
  {[t \in {"X"} |-> "SetX"],
   [t \in {"X"} |-> "Increment"],
   [t \in {"X", "INCREMENT"} |-> "Decrement"]}

BindActions == {Act("X", Num(1), FALSE)}

NextBind ==
  \/ \E model \in HandleModels : script = "setup" /\ Reinitialize(model)
  \/ \E actions \in BindCalls : microtasks = <<>> /\ Rebind(actions)
  \/ \E a \in BindActions : nCalls < MaxBindCalls /\ Dispatch(a)
  \/ RunMicrotask
  \/ StepCounter

SpecBind == Init /\ [][NextBind]_vars

(***************************************************************************)
(* Middleware that dispatch: any chain of Thunk and Thenable, the reducers *)
(* of the tests, a listener of 'x', and dispatches of a thunk, of a        *)
(* promise of an action, of X and of TYPE.                                 *)
(***************************************************************************)
ThunkMiddlewares == {"Thunk", "Thenable"}

ThunkActions == {ThunkOf(Act("X", Num(1), FALSE)), PromiseOf(Act("X", Num(1), FALSE)),
                 Act("X", Num(1), FALSE), Act("TYPE", undefined, FALSE)}

StepThunk ==
  \/ StepDispatch
  \/ StepCall
  \/ StepCallResolve
  \/ StepForEach
  \/ StepReducerFinally
  \/ StepReducerSet
  \/ StepReducerRedispatch
  \/ StepReducerCatch
  \/ StepMiddlewareNext
  \/ StepMiddlewareReturn
  \/ StepMiddlewareThunk
  \/ StepMiddlewareThunkReturn
  \/ StepMiddlewareThenable
  \/ StepMiddlewareResolved
  \/ StepMiddlewareAdopt
  \/ StepThen
  \/ StepThenFinally
  \/ StepEmit
  \/ StepScript
  \/ StepObserve

NextThunk ==
  \/ \E model \in MwModels : Initialize(model)
  \/ \E m \in ThunkMiddlewares : Use(m)
  \/ Bind(Bindings)
  \/ On("x")
  \/ \E a \in ThunkActions : nCalls < MaxThunkCalls /\ gen > 0 /\ Bound /\ Dispatch(a)
  \/ RunMicrotask
  \/ StepThunk

SpecThunk == Init /\ [][NextThunk]_vars

(***************************************************************************)
(* Raises: a reducer of TYPE that raises, a middleware that raises, in any *)
(* chain with the Defer middleware, the X reducer, a listener of 'x', and  *)
(* dispatches of X (at once or delayed) and of TYPE.                       *)
(***************************************************************************)
RaiseMiddlewares == {"Defer", "Raise"}

RaiseBindings == [Bindings EXCEPT !["TYPE"] = "Fail"]

RaiseActions == {Act("X", Num(1), FALSE), Act("X", Num(1), TRUE), Act("TYPE", undefined, FALSE)}

StepRaise ==
  \/ StepDispatch
  \/ StepCall
  \/ StepCallResolve
  \/ StepForEach
  \/ StepReducerFinally
  \/ StepReducerSet
  \/ StepReducerFail
  \/ StepMiddlewareNext
  \/ StepMiddlewareReturn
  \/ StepMiddlewareDefer
  \/ StepMiddlewareRaise
  \/ StepThen
  \/ StepThenFinally
  \/ StepEmit
  \/ StepScript
  \/ StepObserve

NextRaise ==
  \/ \E model \in MwModels : Initialize(model)
  \/ \E m \in RaiseMiddlewares : Use(m)
  \/ Bind(RaiseBindings)
  \/ On("x")
  \/ \E a \in RaiseActions : nCalls < MaxRaiseCalls /\ gen > 0 /\ Bound /\ Dispatch(a)
  \/ FireTimer
  \/ RunMicrotask
  \/ StepRaise

SpecRaise == Init /\ [][NextRaise]_vars

(***************************************************************************)
(* Listeners that raise: listeners of 'x' and 'counter' that record or     *)
(* raise, the reducers X and INCREMENT, the reducer of TYPE whose edit of  *)
(* 'x' raises, dispatches of these in any number of turns, and emit()      *)
(* called by the script.                                                   *)
(***************************************************************************)
ListenBindings ==
  [t \in Types |-> CASE t = "INCREMENT" -> "Increment"
                     [] t = "DECREMENT" -> "Decrement"
                     [] t = "X" -> "SetX"
                     [] OTHER -> "RaiseX"]

ListenActions == {Act("X", Num(1), FALSE), Act("X", Num(0), FALSE),
                  Act("TYPE", undefined, FALSE), Act("INCREMENT", undefined, FALSE)}

NextListen ==
  \/ \E model \in HandleModels : Initialize(model)
  \/ Bind(ListenBindings)
  \/ \E key \in Keys : On(key)
  \/ \E key \in Keys : OnRaise(key)
  \/ \E a \in ListenActions : nCalls < MaxListenCalls /\ gen > 0 /\ Bound /\ Dispatch(a)
  \/ \E key \in Keys : nCalls < MaxListenCalls /\ gen > 0 /\ Bound /\ Emit(key, Num(1))
  \/ RunMicrotask
  \/ StepHandle

SpecListen == Init /\ [][NextListen]_vars

(***************************************************************************)
(* What the listeners of a key have seen in the current turn.              *)
(***************************************************************************)
RECURSIVE ValuesFor(_, _, _)
ValuesFor(log, key, n) ==
  IF log = <<>> THEN <<>>
  ELSE IF Head(log).key = key /\ Head(log).n = n
       THEN <<Head(log).value>> \o ValuesFor(Tail(log), key, n)
       ELSE ValuesFor(Tail(log), key, n)

Received(key, n) == ValuesFor(notified, key, n)
Last(seq) == seq[Len(seq)]

\* a === b
Identical(a, b) == a = b /\ a # NaN /\ b # NaN

\* what a listener of key is owed once the turn is over: the last value staged,
\* unless it is the value the key had when the turn began
Owed(key) ==
  IF Identical(Last(staged[key]), Read(turnModel, key)) THEN <<>> ELSE <<Last(staged[key])>>

(***************************************************************************)
(* C1  Coalescing.  For every key and every non-empty sequence of sets     *)
(* v1 .. vN of the key issued within one turn, each listener of the key    *)
(* receives exactly one notification, carrying vN, when vN is not          *)
(* identical to the value the key had at the start of the turn, and none   *)
(* when it is; no intermediate value is ever delivered.                    *)
(***************************************************************************)
C1_Coalescing ==
  \A key \in Keys : \A n \in 1 .. Len(listeners[key]) :
    staged[key] # <<>> =>
      /\ Received(key, n) \in {<<>>, Owed(key)}
      /\ TurnDone => Received(key, n) = Owed(key)

C1_Witness ==
  /\ TurnDone
  /\ \E key \in Keys :
       /\ Len(staged[key]) >= 2
       /\ staged[key][1] # Last(staged[key])
       /\ listeners[key] # <<>>
       /\ Received(key, 1) = <<Last(staged[key])>>

(***************************************************************************)
(* C2  The counter.  With the model initialised to {counter: c} and the    *)
(* INCREMENT and DECREMENT reducers bound, i INCREMENT and d DECREMENT     *)
(* dispatches issued in one turn, in any order, leave the model at         *)
(* c + i - d after each of them (every edit is applied to the latest       *)
(* staged value), and the turn ends with exactly one notification of       *)
(* c + i - d when i # d and with none when i = d.                          *)
(***************************************************************************)
RECURSIVE Count(_, _)
Count(seq, x) ==
  IF seq = <<>> THEN 0 ELSE (IF Head(seq) = x THEN 1 ELSE 0) + Count(Tail(seq), x)

CounterBound ==
  /\ _reducersByType["INCREMENT"] = <<"Increment">>
  /\ _reducersByType["DECREMENT"] = <<"Decrement">>

C2_Net == Count(issued, "INCREMENT") - Count(issued, "DECREMENT")

C2_Counter ==
  (CounterBound /\ turnModel["counter"].t = "number" /\ issued # <<>>) =>
    LET c == turnModel["counter"].n IN
      /\ stack = <<>> => Read(_model[gen], "counter") = Num(c + C2_Net)
      /\ \A n \in 1 .. Len(listeners["counter"]) :
           /\ Received("counter", n) \in {<<>>, <<Num(c + C2_Net)>>}
           /\ TurnDone =>
                Received("counter", n) = IF C2_Net = 0 THEN <<>> ELSE <<Num(c + C2_Net)>>

C2_Witness ==
  /\ TurnDone
  /\ CounterBound
  /\ turnModel["counter"] = Num(0)
  /\ Count(issued, "INCREMENT") = 3
  /\ Count(issued, "DECREMENT") = 2
  /\ listeners["counter"] # <<>>
  /\ Received("counter", 1) = <<Num(1)>>

(***************************************************************************)
(* C3  Per key.  At the end of a turn a listener of a key set in that turn *)
(* has been notified if and only if the key's value in the model is not    *)
(* identical to its value at the start of the turn; a listener of a key    *)
(* that was not set in the turn is not notified, whatever sets of other    *)
(* keys the turn holds and however they interleave.                        *)
(***************************************************************************)
C3_PerKey ==
  \A key \in Keys : \A n \in 1 .. Len(listeners[key]) :
    /\ staged[key] = <<>> => Received(key, n) = <<>>
    /\ (TurnDone /\ staged[key] # <<>>) =>
         (Received(key, n) # <<>>
            <=> ~Identical(Read(_model[gen], key), Read(turnModel, key)))

C3_Witness ==
  /\ TurnDone
  /\ listeners["counter"] # <<>>
  /\ listeners["x"] # <<>>
  /\ issued = <<"INCREMENT", "X", "DECREMENT">>
  /\ Received("x", 1) # <<>>
  /\ Received("counter", 1) = <<>>

(***************************************************************************)
(* C4  Reentrant dispatch.  A dispatch called by a reducer raises          *)
(* "Reducers can't dispatch actions" at the call, as a raise and not as a  *)
(* rejected promise, whatever middleware the store uses: the call starts   *)
(* no chain (no middleware, no reducer), changes nothing in the store or   *)
(* in the event loop, and the reducer that catches the raise returns, so   *)
(* that the outer dispatch goes on.                                        *)
(***************************************************************************)
C4_Inner == Running("dispatch", "enter") /\ Len(stack) >= 2 /\ stack[Len(stack) - 1].k = "reducer"

C4_Raises ==
  /\ (Running("reducer", "catch") /\ ret.st # "none") => ret = Throw(ReentrantMsg)
  /\ \A p \in 1 .. Len(stack) - 1 :
       (stack[p].k = "reducer" /\ stack[p].pc = "catch") =>
         (p + 1 = Len(stack) /\ stack[p + 1].k = "dispatch")
  /\ (Running("call", "finally") /\ ret.st # "none"
        /\ Reducers(Top.a.type)[Top.j] = "Redispatch") => ret = Plain("undefined")

C4_NoEffect ==
  C4_Inner =>
    /\ stack' = Pop
    /\ ret' = Throw(ReentrantMsg)
    /\ UNCHANGED <<store, index, dispatched, microtasks, timers>>

C4_Reentrant == []C4_Raises /\ [][C4_NoEffect]_vars

C4_Witness ==
  /\ Running("reducer", "catch")
  /\ ret = Throw(ReentrantMsg)
  /\ _isDispatching
  /\ Len(_middleware[gen]) = MaxMiddleware

(***************************************************************************)
(* C5  Direct emission.  Every emit(key, value) the script calls itself,   *)
(* outside the turn-end step of set, raises the error that names the key   *)
(* and calls no listener, whether or not a set of the key is pending and   *)
(* whether or not the key was emitted in an earlier turn; the armed flag   *)
(* of a key is up only while the turn-end step of that key is emitting.    *)
(***************************************************************************)
C5_Emitting(key) ==
  \E p \in 1 .. Len(stack) :
    stack[p].k = "then" /\ stack[p].pc = "finally" /\ stack[p].key = key

C5_DirectEmit ==
  /\ \A p \in 1 .. Len(notified) : ~notified[p].direct
  /\ \A key \in Keys : _emittingByKey[key] => C5_Emitting(key)
  /\ lastCall.op = "emit" => lastCall.ret = Throw(EmitMsg(lastCall.key))

C5_Witness ==
  /\ lastCall.op = "emit"
  /\ lastCall.ret = Throw(EmitMsg("x"))
  /\ listeners["x"] # <<>>
  /\ staged["x"] # <<>>
  /\ \E p \in 1 .. Len(microtasks) : microtasks[p].k = "then" /\ microtasks[p].key = "x"
  /\ stack = <<>>
  /\ notified = <<>>

(***************************************************************************)
(* Histories of dispatch calls.                                            *)
(***************************************************************************)
Dispatches == 1 .. Len(dispatched)

\* every index of the chain was accepted at most once, in increasing order
Increasing(path) == \A p \in 1 .. Len(path) - 1 : path[p] < path[p + 1]

\* every middleware of the chain returns what its next returns, for action a
ChainPasses(chain, a) ==
  \A p \in 1 .. Len(chain) : chain[p] = "Rewrite" \/ (chain[p] = "Defer" /\ ~a.delay)

\* the script's dispatch of an action has just come back
Back == Running("script", "await") /\ ret.st # "none" /\ Top.r = "dispatch"

(***************************************************************************)
(* C6  A second next.  Within one dispatch, the second call of a           *)
(* middleware's next is rejected with "next() called more than once", and  *)
(* it runs no middleware and no reducer: every index of the chain is       *)
(* entered at most once and the reducers of the action run at most once.   *)
(***************************************************************************)
C6_Message == "next() called more than once"

C6_OnceOnly ==
  \A d \in Dispatches :
    /\ Increasing(dispatched[d].path)
    /\ dispatched[d].runs <= 1

C6_DoubleNext ==
  /\ C6_OnceOnly
  /\ \A d \in Dispatches : dispatched[d].again \in {"", C6_Message}

(***************************************************************************)
(* C7  The result of dispatch.  When every middleware of the chain returns *)
(* what its next returns, the promise of dispatch(action) is resolved with *)
(* the action given to dispatch, whatever the middleware passed to next    *)
(* and however many they are.                                              *)
(***************************************************************************)
C7_Original ==
  (Back /\ ChainPasses(_middleware[gen], Top.a)) => ret = Resolved(Top.a)

C7_Witness ==
  /\ Back
  /\ _middleware[gen] = <<"Rewrite", "Rewrite">>
  /\ Top.a = Act("TYPE", undefined, FALSE)
  /\ ret = Resolved(Top.a)

(***************************************************************************)
(* C8  Transformation.  When a middleware calls next with an action of its *)
(* own, what runs below that call (the next middleware, the terminal step  *)
(* and every reducer) receives that action and not the one the middleware  *)
(* was given.                                                              *)
(***************************************************************************)
C8_Transform ==
  \A p \in 1 .. Len(stack) : \A q \in p + 1 .. Len(stack) :
    (/\ stack[p].k = "middleware"
     /\ stack[p].r = "Rewrite"
     /\ stack[q].k \in {"call", "middleware", "reducer"}) => stack[q].a = Rewritten

(***************************************************************************)
(* C9  Short circuit and cancel.  A delayed action that reaches Defer      *)
(* makes dispatch resolve with cancel, and by then only the chain up to    *)
(* Defer has run and no reducer; once cancel is called while the timer is  *)
(* pending, the timer is gone, the chain is never resumed and the action's *)
(* reducer never runs; a dispatch of an action that is not delayed runs    *)
(* its reducers and resolves with the action as ever.                      *)
(***************************************************************************)
\* the position of the first Defer of a chain that begins with Rewrites, 0 if none
RECURSIVE FirstDefer(_, _)
FirstDefer(chain, p) ==
  IF p > Len(chain) \/ chain[p] = "TwiceNext" THEN 0
  ELSE IF chain[p] = "Defer" THEN p
  ELSE FirstDefer(chain, p + 1)

C9_ShortCircuit ==
  (Back /\ Top.a.delay /\ FirstDefer(_middleware[gen], 1) > 0) =>
    /\ ret.p = "resolved"
    /\ ret.what = "cancel"
    /\ dispatched[Top.d].runs = 0
    /\ Len(dispatched[Top.d].path) = FirstDefer(_middleware[gen], 1)

C9_Cancelled ==
  \A d \in Dispatches :
    dispatched[d].cancel = "in time" =>
      /\ dispatched[d].runs = 0
      /\ fired # d
      /\ \A t \in timers : t.d # d
      /\ \A p \in 1 .. Len(stack) : stack[p].k \in {"call", "middleware"} => stack[p].d # d

C9_Others ==
  (Back /\ ~Top.a.delay /\ ChainPasses(_middleware[gen], Top.a)) =>
    /\ ret = Resolved(Top.a)
    /\ dispatched[Top.d].runs = Len(Reducers(Top.a.type))

C9_Cancel == C9_ShortCircuit /\ C9_Cancelled /\ C9_Others

C9_Witness ==
  /\ TurnDone
  /\ Len(dispatched) = 2
  /\ dispatched[1].cancel = "in time"
  /\ dispatched[2].runs = 1
  /\ dispatched[2].res = "action"
  /\ listeners["x"] # <<>>
  /\ Received("x", 1) = <<Num(1)>>
  /\ timers = {}

(***************************************************************************)
(* C10  Deferred action.  With the Defer middleware, the X reducer and a   *)
(* delayed X: when the script sees dispatch resolved with cancel, the      *)
(* reducer has not run; the reducer of a dispatch runs at most once; and   *)
(* while the timer of the dispatch is pending, either cancel is called in  *)
(* time or the timer fires, the reducer runs once, and at the end of that  *)
(* turn the listeners of 'x' have received the new value (nothing if 'x'   *)
(* already held it).                                                       *)
(***************************************************************************)
C10_Deferred(d) ==
  /\ d \in Dispatches
  /\ dispatched[d].res = "cancel"
  /\ \E t \in timers : t.d = d
  /\ _reducersByType["X"] = <<"SetX">>

C10_Done(d) ==
  /\ d \in Dispatches
  /\ TurnDone
  /\ fired = d
  /\ dispatched[d].runs = 1
  /\ staged["x"] = <<Num(1)>>
  /\ Read(_model[gen], "x") = Num(1)
  /\ \A n \in 1 .. Len(listeners["x"]) : Received("x", n) = Owed("x")

C10_Cancelled(d) == d \in Dispatches /\ dispatched[d].cancel = "in time"

C10_NotYet ==
  /\ (Running("observe", "enter") /\ dispatched[Top.d].res = "cancel") =>
       (dispatched[Top.d].runs = 0 /\ fired # Top.d)
  /\ \A d \in Dispatches : dispatched[d].runs <= 1

C10_Defer ==
  /\ []C10_NotYet
  /\ \A d \in 1 .. MaxDeferCalls :
       C10_Deferred(d) ~> (C10_Cancelled(d) \/ C10_Done(d))

C10_Witness ==
  /\ C10_Done(1)
  /\ dispatched[1].res = "cancel"
  /\ dispatched[1].cancel = "no"
  /\ listeners["x"] # <<>>
  /\ turnModel["x"] = Num(0)
  /\ Received("x", 1) = <<Num(1)>>

(***************************************************************************)
(* A dispatch of the script is in flight from the call to its return.      *)
(***************************************************************************)
InFlight == stack # <<>> /\ stack[1].k = "script" /\ stack[1].r = "dispatch"

\* the model, the records of the pending writes, the flags and what was delivered
Untouched ==
  UNCHANGED <<gen, _model, _keys, _prevValueByKey, _nextValueByKey, _emittingByKey,
              _isDispatching, staged, notified>>

NotPlain(a) == a.shape \in {"date", "instance"}

(***************************************************************************)
(* C11  Not a plain object.  A dispatch of a value that is no plain record *)
(* (a Date, an instance of a class) comes back as a promise rejected with  *)
(* "action is not a plain object", whether or not the value carries a      *)
(* type; no reducer runs, and from the call to its return the model, the   *)
(* records of the pending writes and the notifications delivered do not    *)
(* change.                                                                 *)
(***************************************************************************)
C11_Rejected ==
  (Back /\ NotPlain(Top.a)) =>
    /\ ret = Rejected(NotPlainMsg)
    /\ dispatched[Top.d].runs = 0

C11_Untouched == (InFlight /\ NotPlain(stack[1].a)) => (Untouched /\ ~_isDispatching')

C11_NotPlain == []C11_Rejected /\ [][C11_Untouched]_vars

C11_Witness ==
  /\ Back
  /\ Top.a = DateAction
  /\ ret = Rejected(NotPlainMsg)
  /\ _middleware[gen] # <<>>
  /\ staged["x"] # <<>>
  /\ \E p \in 1 .. Len(microtasks) : microtasks[p].k = "then"

(***************************************************************************)
(* C12  No type.  A dispatch of a plain record that has no type property   *)
(* comes back as a promise rejected with "action doesn't include a type    *)
(* property"; no reducer runs and nothing changes.  The check of the       *)
(* record comes first: a value that is no plain record and has no type is  *)
(* rejected for not being a plain object.                                  *)
(***************************************************************************)
C12_Rejected ==
  Back =>
    /\ (isPlainObject(Top.a) /\ ~Top.a.hasType) =>
         (ret = Rejected(NoTypeMsg) /\ dispatched[Top.d].runs = 0)
    /\ (~isPlainObject(Top.a) /\ ~Top.a.hasType) => ret.what = NotPlainMsg

C12_Untouched ==
  (InFlight /\ stack[1].a.shape = "plain" /\ ~stack[1].a.hasType) =>
    (Untouched /\ ~_isDispatching')

C12_NoType == []C12_Rejected /\ [][C12_Untouched]_vars

C12_Witness ==
  /\ Back
  /\ Top.a = EmptyRecord
  /\ ret = Rejected(NoTypeMsg)
  /\ lastCall.op = "dispatch"
  /\ lastCall.ret = Rejected(NotPlainMsg)
  /\ _middleware[gen] # <<>>

(***************************************************************************)
(* C13  No reducer.  A dispatch of a valid action of a type nothing is     *)
(* bound to resolves with that action; no reducer runs, the dispatching    *)
(* flag stays down, and from the call to its return the model and the      *)
(* records of the pending writes do not change and no listener is called.  *)
(***************************************************************************)
C13_Resolved ==
  (Back /\ Top.a.type = "NONE") =>
    /\ ret = Resolved(Top.a)
    /\ dispatched[Top.d].runs = 0

C13_Untouched ==
  (InFlight /\ stack[1].a.type = "NONE") =>
    (Untouched /\ ~_isDispatching /\ ~_isDispatching')

C13_NoReducer == []C13_Resolved /\ [][C13_Untouched]_vars

C13_Witness ==
  /\ Back
  /\ Top.a = Act("NONE", undefined, FALSE)
  /\ ret = Resolved(Top.a)
  /\ Bound
  /\ listeners["x"] # <<>>
  /\ staged["x"] # <<>>

(***************************************************************************)
(* C14  Writes in flight at initialize.  When the script calls initialize  *)
(* in a turn, after sets of that turn and with nothing dispatched after    *)
(* it, the end of the turn calls no listener for those sets, the listeners *)
(* registered after initialize included, and the new model stays as        *)
(* initialize seeded it.                                                   *)
(***************************************************************************)
C14_Discarded ==
  (issued # <<>> /\ issued[Len(issued)] = "initialize") =>
    /\ notified = <<>>
    /\ _model[gen] = turnModel

(***************************************************************************)
(* C15  Reset.  initialize(model), called in any state in which the script *)
(* may call it, leaves the store reset: the model holds the keys and       *)
(* values of model and no other (nothing when model is omitted), keys()    *)
(* lists them in the order of their creation in the model, get of any      *)
(* other key is undefined, and there are no listeners, no middleware, no   *)
(* reducers, no records of pending writes, no armed key, and the           *)
(* dispatching flag is down.                                               *)
(***************************************************************************)
C15_Reset ==
  /\ _model[gen] = turnModel
  /\ Range(keys) = {k \in DOMAIN turnModel : turnModel[k] # Absent}
  /\ keys = _keys[gen]
  /\ \A k \in DOMAIN turnModel : turnModel[k] = Absent => get(k) = undefined
  /\ \A k \in Keys : listeners[k] = <<>> /\ ~_emittingByKey[k]
  /\ _middleware[gen] = <<>>
  /\ \A t \in Types : _reducersByType[t] = <<>>
  /\ _prevValueByKey[gen] = EmptyObject
  /\ _nextValueByKey[gen] = EmptyObject
  /\ ~_isDispatching

C15_Initialize == [][gen' # gen => C15_Reset']_vars

C15_Witness ==
  /\ gen > 0
  /\ issued = <<"X", "initialize">>
  /\ \E p \in 1 .. Len(microtasks) : microtasks[p].k = "then" /\ microtasks[p].g < gen
  /\ _prevValueByKey[gen - 1]["x"] # Absent
  /\ _middleware[gen - 1] # <<>>
  /\ keys = <<"0", "x">>
  /\ C15_Reset

(***************************************************************************)
(* What the continuations attached to the handles of set have been handed  *)
(* in the current turn.                                                    *)
(***************************************************************************)
Failed == [t |-> "error", n |-> 0]
Handed(key) == ValuesFor(notified, key, 0)
Resolutions(key) == SelectSeq(Handed(key), LAMBDA v : v # Failed)
Rejections(key) == SelectSeq(Handed(key), LAMBDA v : v = Failed)

(***************************************************************************)
(* C16  A raising edit.  A set whose edit raises returns a handle rejected *)
(* with the error and leaves the model as it was; the other sets of the    *)
(* turn, of the same key or of another, before it or after it, are not     *)
(* aborted: each of their handles resolves, with the final value of the    *)
(* key, and the listeners receive the net change of the turn.              *)
(***************************************************************************)
C16_EditFailure ==
  /\ Len(Rejections("x")) <= Count(issued, "TYPE")
  /\ Len(Resolutions("x")) <= Len(staged["x"])
  /\ \A key \in Keys :
       Read(_model[gen], key) = IF staged[key] = <<>> THEN Read(turnModel, key)
                                ELSE Last(staged[key])
  /\ \A key \in Keys : \A n \in 1 .. Len(listeners[key]) :
       /\ staged[key] = <<>> => Received(key, n) = <<>>
       /\ staged[key] # <<>> => Received(key, n) \in {<<>>, Owed(key)}
  /\ TurnDone =>
       /\ Len(Rejections("x")) = Count(issued, "TYPE")
       /\ Resolutions("x") = [p \in 1 .. Len(staged["x"]) |-> Last(staged["x"])]
       /\ \A key \in Keys : \A n \in 1 .. Len(listeners[key]) :
            staged[key] # <<>> => Received(key, n) = Owed(key)

C16_Witness ==
  /\ TurnDone
  /\ issued = <<"X", "TYPE", "INCREMENT">>
  /\ turnModel["x"] = Num(0)
  /\ staged["x"] = <<Num(1)>>
  /\ listeners["x"] # <<>>
  /\ listeners["counter"] # <<>>
  /\ Rejections("x") = <<Failed>>
  /\ Resolutions("x") = <<Num(1)>>
  /\ Received("x", 1) = <<Num(1)>>
  /\ Received("counter", 1) = <<Num(1)>>

(***************************************************************************)
(* C17  Notification before resolution.  When the turn of a set ends with  *)
(* a net change of its key, the continuation attached to the handle of the *)
(* set runs after every listener of the key has been called with the new   *)
(* value; the handle resolves with that value.                             *)
(***************************************************************************)
C17_NotifiedFirst ==
  \A p \in 1 .. Len(notified) :
    (notified[p].n = 0 /\ notified[p].value # Failed /\ Owed(notified[p].key) # <<>>) =>
      /\ <<notified[p].value>> = Owed(notified[p].key)
      /\ \A n \in 1 .. Len(listeners[notified[p].key]) :
           \E q \in 1 .. p - 1 :
             /\ notified[q].key = notified[p].key
             /\ notified[q].n = n
             /\ notified[q].value = notified[p].value

C17_Witness ==
  /\ TurnDone
  /\ staged["x"] = <<Num(0), Num(1)>>
  /\ turnModel["x"] = Num(0)
  /\ listeners["x"] # <<>>
  /\ notified = <<[key |-> "x", value |-> Num(1), direct |-> FALSE, n |-> 1],
                  [key |-> "x", value |-> Num(1), direct |-> FALSE, n |-> 0],
                  [key |-> "x", value |-> Num(1), direct |-> FALSE, n |-> 0]>>

(***************************************************************************)
(* C18  Turns apart.  Sets of one key in different turns are not           *)
(* coalesced: when a turn is over no record of its writes is left, the     *)
(* model holds the last value the turn staged, and the listeners of the    *)
(* key have received that value unless it is identical to the value the    *)
(* key had when this turn began, whatever earlier turns wrote; so v1 set   *)
(* in one turn and v2 # v1 set in a later turn are notified one after the  *)
(* other.                                                                  *)
(***************************************************************************)
C18_TurnsApart ==
  TurnDone =>
    \A key \in Keys :
      /\ _prevValueByKey[gen][key] = Absent
      /\ _nextValueByKey[gen][key] = Absent
      /\ staged[key] # <<>> =>
           /\ get(key) = Last(staged[key])
           /\ \A n \in 1 .. Len(listeners[key]) :
                Received(key, n) = IF Identical(get(key), Read(turnModel, key))
                                   THEN <<>> ELSE <<get(key)>>

C18_Witness ==
  /\ TurnDone
  /\ lastCall.d = 2
  /\ issued = <<"X">>
  /\ turnModel["x"] = Num(1)
  /\ staged["x"] = <<Num(2)>>
  /\ listeners["x"] # <<>>
  /\ Received("x", 1) = <<Num(2)>>

(***************************************************************************)
(* C19  Reducers before resolution.  When a middleware is entered, no      *)
(* reducer has run for the action it is given; when its next hands back    *)
(* the promise the terminal step resolved, every reducer bound to the      *)
(* action's type has run, once, and what they wrote is what get reads.     *)
(***************************************************************************)
C19_Handed ==
  /\ stack # <<>>
  /\ Top.k = "middleware"
  /\ Top.pc \in {"return", "then", "settle"}
  /\ ret.st = "val"
  /\ ret.p = "resolved"
  /\ ret.what = "action"

C19_Synchronous ==
  /\ Running("middleware", "enter") => dispatched[Top.d].runs = 0
  /\ C19_Handed =>
       /\ dispatched[Top.d].runs = Len(_reducersByType[ret.a.type])
       /\ _reducersByType[ret.a.type] = <<"SetX">> => get("x") = ret.a.payload
       /\ ~_isDispatching

C19_Witness ==
  /\ C19_Handed
  /\ Top.r = "Defer"
  /\ Top.pc = "return"
  /\ Len(_middleware[gen]) = MaxMiddleware
  /\ _reducersByType["X"] = <<"SetX">>
  /\ ret.a = Act("X", Num(1), FALSE)
  /\ turnModel["x"] = Num(0)
  /\ get("x") = Num(1)

(***************************************************************************)
(* C20  bind adds.  A dispatch of an action of type T invokes the reducers *)
(* the script has bound to T since the last initialize, every one of them  *)
(* once and in the order of their binding (a second bind of T adds its     *)
(* reducer after the first), and no reducer bound to another type only.    *)
(***************************************************************************)
IsPrefix(s, t) == Len(s) <= Len(t) /\ s = SubSeq(t, 1, Len(s))

C20_Additive ==
  /\ \A t \in Types : _reducersByType[t] = registered[t]
  /\ (InFlight /\ stack[1].d \in Dispatches) =>
       IsPrefix(dispatched[stack[1].d].ran, registered[stack[1].a.type])
  /\ (Back /\ ret.st = "val") =>
       /\ ret = Resolved(Top.a)
       /\ dispatched[Top.d].ran = registered[Top.a.type]

C20_Witness ==
  /\ Back
  /\ gen > 0
  /\ Top.d = 2
  /\ Top.a.type = "X"
  /\ registered["X"] = <<"Decrement", "SetX">>
  /\ registered["INCREMENT"] = <<"Decrement">>
  /\ dispatched[Top.d].ran = <<"Decrement", "SetX">>
  /\ dispatched[1].ran = <<"Decrement">>
  /\ dispatched[1].g = gen


(***************************************************************************)
(* C21  The order of the chain.  The chain function of a dispatch accepts  *)
(* the indices 0, 1, 2, ... in this order, none twice and none skipped:    *)
(* it starts at middleware 0, a middleware runs (or waits in a timer or a  *)
(* reaction) only when every index before its own has been accepted, and   *)
(* the reducers run only when every middleware of the chain has called     *)
(* next.                                                                   *)
(***************************************************************************)
\* the indices accepted so far are 0 .. Len(path) - 1, in this order
Consecutive(path) == \A p \in 1 .. Len(path) : path[p] = p - 1

\* the frames of middleware and of calls waiting anywhere: stack, reactions, timers
ChainFrames ==
  {stack[p] : p \in 1 .. Len(stack)}
  \cup {microtasks[p] : p \in 1 .. Len(microtasks)}

C21_InOrder ==
  /\ \A d \in Dispatches :
       /\ Consecutive(dispatched[d].path)
       /\ Len(dispatched[d].path) <= Len(_middleware[dispatched[d].g]) + 1
       /\ dispatched[d].runs > 0 =>
            Len(dispatched[d].path) = Len(_middleware[dispatched[d].g]) + 1
  /\ \A f \in ChainFrames :
       (f.k = "middleware" /\ f.d \in Dispatches) =>
         /\ Len(dispatched[f.d].path) >= f.i
         /\ _middleware[dispatched[f.d].g][f.i] = f.r
  /\ \A t \in timers : t.d \in Dispatches => Len(dispatched[t.d].path) >= t.i

C21_Witness ==
  /\ Back
  /\ _middleware[gen] = <<"TwiceNext", "Defer">>
  /\ dispatched[Top.d].path = <<0, 1, 2>>
  /\ dispatched[Top.d].runs = 1

(***************************************************************************)
(* C22  Dispatch from a middleware.  A dispatch that a middleware issues   *)
(* instead of calling next (the thunk called by Thunk, the reaction of     *)
(* Thenable) is not refused as reentrant: it comes back resolved with the  *)
(* action dispatched, its own chain has run from index 0 through every     *)
(* middleware, and the reducers of the action have run.  The function or   *)
(* promise given to the outer dispatch goes no further than the middleware *)
(* that takes it, so it never reaches the validation of the action: the    *)
(* outer dispatch is not rejected and runs no reducer itself.              *)
(***************************************************************************)
\* the middleware that takes a value that is no record
Taker(a) == IF a.shape = "function" THEN "Thunk" ELSE "Thenable"

\* the position of the first middleware m of a chain, 0 if none
RECURSIVE FirstOf(_, _, _)
FirstOf(chain, m, p) ==
  IF p > Len(chain) THEN 0
  ELSE IF chain[p] = m THEN p
  ELSE FirstOf(chain, m, p + 1)

\* a function or promise dispatched through a chain with a middleware that takes it
Taken(a, chain) ==
  /\ a.shape \in {"function", "promise"}
  /\ FirstOf(chain, Taker(a), 1) > 0

\* the dispatch the middleware on top issued has come back
BackInChain ==
  /\ stack # <<>>
  /\ Top.k = "middleware"
  /\ Top.pc \in {"thunk", "adopt"}
  /\ ret.st # "none"

C22_Inner ==
  BackInChain =>
    /\ ret = Resolved(IF Top.pc = "thunk" THEN Inner(Top.a)
                      ELSE [Inner(Top.a) EXCEPT !.resolved = TRUE])
    /\ Top.j \in Dispatches
    /\ Top.j # Top.d
    /\ Consecutive(dispatched[Top.j].path)
    /\ Len(dispatched[Top.j].path) = Len(_middleware[gen]) + 1
    /\ dispatched[Top.j].ran = _reducersByType[Top.a.type]
    /\ dispatched[Top.j].ran # <<>>

C22_Outer ==
  /\ (Back /\ Taken(Top.a, _middleware[gen])) =>
       /\ ret = (IF Top.a.shape = "function"
                 THEN PromiseResolve(Plain("undefined")) ELSE Derived)
       /\ dispatched[Top.d].runs = 0
       /\ Len(dispatched[Top.d].path) = FirstOf(_middleware[gen], Taker(Top.a), 1)
  /\ \A f \in ChainFrames :
       (f.k = "call" /\ Taken(f.a, _middleware[gen])) =>
         f.i < FirstOf(_middleware[gen], Taker(f.a), 1)

C22_Nested == C22_Inner /\ C22_Outer

C22_Witness ==
  /\ TurnDone
  /\ _middleware[gen] = <<"Thunk", "Thenable">>
  /\ Len(dispatched) = 4
  /\ dispatched[1].res = "undefined"
  /\ dispatched[1].path = <<0>>
  /\ dispatched[2].ran = <<"SetX">>
  /\ dispatched[3].res = "action"
  /\ dispatched[3].path = <<0, 1>>
  /\ dispatched[4].ran = <<"SetX">>
  /\ dispatched[4].path = <<0, 1, 2>>
  /\ \A d \in Dispatches : dispatched[d].seen = (d \in {1, 3})

(***************************************************************************)
(* Dispatches that overlap.  A dispatch is unfinished when it was started, *)
(* has run no reducer yet and either a frame of its chain is on the stack  *)
(* or a timer will resume its chain.                                       *)
(***************************************************************************)
Unfinished ==
  {d \in Dispatches :
     /\ dispatched[d].runs = 0
     /\ \/ \E t \in timers : t.d = d
        \/ \E p \in 1 .. Len(stack) : stack[p].k \in {"call", "middleware"} /\ stack[p].d = d}

ReducerFrames == {p \in 1 .. Len(stack) : stack[p].k = "reducer"}

(***************************************************************************)
(* C23  One dispatch in flight (as claimed).  In every state at most one   *)
(* dispatch is unfinished, also when a middleware has deferred its next    *)
(* to a later turn.                                                        *)
(***************************************************************************)
C23_OneInFlight == Cardinality(Unfinished) <= 1

(***************************************************************************)
(* C23  One dispatch in its reducers (amended).  Dispatches overlap when a *)
(* middleware defers its next or dispatches anew, but at most one reducer  *)
(* runs at any time and nothing of a chain runs inside a reducer: no call  *)
(* of the chain function, no middleware and no other reducer is above a    *)
(* reducer on the stack, and no dispatch is started while one runs.        *)
(***************************************************************************)
C23_OneReducing ==
  /\ Cardinality(ReducerFrames) <= 1
  /\ \A p \in ReducerFrames : \A q \in p + 1 .. Len(stack) :
       stack[q].k \notin {"call", "middleware", "reducer"}
  /\ ReducerFrames # {} => Cardinality({d \in Dispatches : dispatched[d].path = <<>>}) = 0

C23_Witness ==
  /\ Cardinality(Unfinished) = 1
  /\ \E p \in ReducerFrames :
       /\ stack[p].r = "Redispatch"
       /\ Running("dispatch", "enter")
       /\ stack[p - 1].d \notin Unfinished
       /\ \E t \in timers : t.d # stack[p - 1].d

(***************************************************************************)
(* C24  The dispatching flag.  _isDispatching is true only from the moment *)
(* forEach calls a reducer to the finally that follows its return or its   *)
(* raise: it is false whenever no reducer is on the stack and no finally   *)
(* is due, so at every turn boundary, in every middleware and while the    *)
(* listeners are called.  A reducer that raises leaves the flag false, and *)
(* no dispatch of the script is ever refused as reentrant.                 *)
(***************************************************************************)
\* forEach is inside its try block: a reducer runs, or has come back and the finally
\* has not run yet
FinallyDue == \E p \in 1 .. Len(stack) : stack[p].k = "call" /\ stack[p].pc = "finally"

C24_Scope ==
  /\ _isDispatching => FinallyDue
  /\ (stack # <<>> /\ Top.k \in {"middleware", "emit", "then", "script", "dispatch"}) =>
       ~_isDispatching
  /\ stack = <<>> => ~_isDispatching

C24_AfterRaise ==
  /\ Back => (~_isDispatching /\ ret # Throw(ReentrantMsg))
  /\ (Back /\ Top.a.type = "TYPE" /\ ~Top.a.delay /\ "Raise" \notin Range(_middleware[gen])) =>
       /\ ret \in {Throw(ReducerError), Rejected(ReducerError)}
       /\ ret.st = "exc" <=> _middleware[gen] = <<>>

C24_Flag == C24_Scope /\ C24_AfterRaise

C24_Witness ==
  /\ Back
  /\ Top.d = 2
  /\ Top.a.type = "X"
  /\ ret = Resolved(Top.a)
  /\ dispatched[1].path = <<0, 1>>
  /\ dispatched[1].ran = <<"Fail">>
  /\ lastCall.ret = Rejected(ReducerError)
  /\ dispatched[2].ran = <<"SetX">>

(***************************************************************************)
(* C30  A middleware that raises.  When the action of a dispatch reaches,  *)
(* within the call of dispatch, a middleware that raises, dispatch does    *)
(* not raise: it returns a promise rejected with the error raised.  The    *)
(* chain stops at that middleware, no reducer runs, and from the call to   *)
(* its return the model, the records of the pending writes, the flags and  *)
(* what was delivered do not change; the dispatching flag is false.        *)
(***************************************************************************)
\* the action reaches the first Raise of the chain before dispatch returns
ReachesRaise(a, chain) ==
  /\ a.type = "TYPE"
  /\ FirstOf(chain, "Raise", 1) > 0
  /\ a.delay => FirstOf(chain, "Defer", 1) \notin 1 .. FirstOf(chain, "Raise", 1)

C30_Rejected ==
  (Back /\ ReachesRaise(Top.a, _middleware[gen])) =>
    /\ ret = Rejected(MiddlewareError)
    /\ dispatched[Top.d].runs = 0
    /\ Len(dispatched[Top.d].path) = FirstOf(_middleware[gen], "Raise", 1)
    /\ ~_isDispatching

C30_Untouched ==
  (InFlight /\ ReachesRaise(stack[1].a, _middleware[gen])) =>
    (Untouched /\ ~_isDispatching' /\ UNCHANGED timers)

C30_MiddlewareRaise == []C30_Rejected /\ [][C30_Untouched]_vars

C30_Witness ==
  /\ Back
  /\ _middleware[gen] = <<"Defer", "Raise">>
  /\ Top.a.type = "TYPE"
  /\ ret = Rejected(MiddlewareError)
  /\ dispatched[Top.d].path = <<0, 1>>
  /\ staged["x"] = <<Num(1)>>
  /\ _prevValueByKey[gen]["x"] = Num(0)
  /\ Len(microtasks) = 2

(***************************************************************************)
(* C25  Records of the pending writes.  Whenever nothing runs and no       *)
(* reaction of set is queued, no key has a record of a pending write: the  *)
(* snapshot of every turn (and, in build 1, the staged value) is deleted   *)
(* by the reaction whether it notifies or not, also after a turn in which  *)
(* an edit has raised.                                                     *)
(***************************************************************************)
Quiescent == stack = <<>> /\ microtasks = <<>>

C25_Cleared ==
  Quiescent =>
    \A g \in Gens : \A key \in Keys :
      /\ _prevValueByKey[g][key] = Absent
      /\ _nextValueByKey[g][key] = Absent

(***************************************************************************)
(* C26  The armed flag.  _emittingByKey[key] is true exactly while the     *)
(* reaction of set is inside the try block around emit(key, value): it is  *)
(* false in every other state, also after a listener has raised, so that   *)
(* every emit called by the script is refused with the direct-emission     *)
(* error and no listener is ever called by it.                             *)
(***************************************************************************)
\* the reaction of a set of key has armed the flag and its finally has not run yet
Emitting(key) ==
  \E p \in 1 .. Len(stack) :
    stack[p].k = "then" /\ stack[p].pc = "finally" /\ stack[p].key = key

EmitBack == Running("script", "await") /\ ret.st # "none" /\ Top.r = "emit"

C26_Armed ==
  /\ \A key \in Keys : _emittingByKey[key] <=> Emitting(key)
  /\ EmitBack => ret = Throw(EmitMsg(Top.key))
  /\ \A p \in 1 .. Len(notified) : ~notified[p].direct

C26_Witness ==
  /\ EmitBack
  /\ Top.key = "x"
  /\ ret = Throw(EmitMsg("x"))
  /\ listeners["x"] = <<"raise">>
  /\ get("x") = Num(1)
  /\ microtasks = <<>>
  /\ _prevValueByKey[gen]["x"] = Absent

(***************************************************************************)
(* C27  set writes at once.  The step in which a reducer calls             *)
(* set(key, edit) leaves in the model the edit itself, or the edit applied *)
(* to the value the model held at the call, and for the rest of the turn   *)
(* get(key) yields the value of the last set of the key, for every later   *)
(* reducer and dispatch; the step records the snapshot of the key only if  *)
(* none is pending, so the first snapshot of the turn is kept.             *)
(***************************************************************************)
\* the edit the reducer on top hands to set
EditOf(f) == IF f.r \in {"SetXThen", "RaiseX"} THEN HandleEdit(f.r, f.a)
             ELSE ReducerEdit(f.r, f.a)

\* this step is a call of set(key, ...) that has staged a value
SetStep(key) == staged'[key] # staged[key] /\ staged'[key] # <<>>

C27_Latest ==
  \A key \in Keys :
    /\ staged[key] # <<>> => get(key) = Last(staged[key])
    /\ _prevValueByKey[gen][key] # Absent => _prevValueByKey[gen][key] = turnModel[key]

C27_Immediate ==
  \A key \in Keys :
    SetStep(key) =>
      /\ Running("reducer", "enter")
      /\ key = ReducerKey(Top.r) \/ Top.r \in {"SetXThen", "RaiseX"}
      /\ Read(_model'[gen], key) = ApplyEdit(EditOf(Top), get(key))
      /\ staged'[key] = Append(staged[key], ApplyEdit(EditOf(Top), get(key)))
      /\ _prevValueByKey'[gen][key] =
           IF _prevValueByKey[gen][key] = Absent THEN get(key)
           ELSE _prevValueByKey[gen][key]

Deferred == {"then", "emit", "continuation"}

C28_Apart ==
  /\ InFlight => \A p \in 1 .. Len(stack) : stack[p].k \notin Deferred
  /\ (stack # <<>> /\ stack[1].k \in Deferred) =>
       /\ draining
       /\ \A p \in 1 .. Len(stack) : stack[p].k \in Deferred
       /\ \A key \in Keys : staged[key] # <<>> => get(key) = Last(staged[key])

C28_NoneAtOnce ==
  /\ InFlight => notified' = notified
  /\ notified' # notified =>
       /\ notified' = <<>> \/ (stack # <<>> /\ stack[1].k \in Deferred)
       /\ \A key \in Keys : staged'[key] # <<>> => staged'[key] = staged[key]

C28_Deferred == []C28_Apart /\ [][C28_NoneAtOnce]_vars

C28_Witness ==
  /\ Running("then", "enter")
  /\ Top.key = "counter"
  /\ notified = <<>>
  /\ staged["counter"] = <<Num(1), Num(2)>>
  /\ staged["x"] = <<Num(1)>>
  /\ get("counter") = Num(2)
  /\ get("x") = Num(1)
  /\ Len(microtasks) = 5
  /\ listeners["x"] # <<>>

(***************************************************************************)
(* C29  Keys apart.  In every turn and for every key, each listener the    *)
(* emitter gets to call for the key receives, by the end of the turn, the  *)
(* last value staged for that key when it differs from the value the key   *)
(* had when the turn began, and nothing otherwise, whatever happened to    *)
(* the other key in the turn: no change, an edit that raised, or a         *)
(* listener that raised.                                                   *)
(***************************************************************************)
C29_Independent ==
  \A key \in Keys : \A n \in 1 .. Called(key) :
    IF staged[key] = <<>> THEN Received(key, n) = <<>>
    ELSE /\ Received(key, n) \in {<<>>, Owed(key)}
         /\ TurnDone => Received(key, n) = Owed(key)

\* the other key of the two
Other(key) == CHOOSE k \in Keys : k # key

\* what can go wrong with a key in a turn: its edit raised, nothing changed, or its
\* listener raised when notified
Troubled(key) ==
  \/ "TYPE" \in Range(issued) /\ key = "x"
  \/ staged[key] # <<>> /\ Owed(key) = <<>>
  \/ staged[key] # <<>> /\ Owed(key) # <<>> /\ listeners[key] = <<"raise">>

C29_Witness ==
  /\ TurnDone
  /\ issued = <<"X", "INCREMENT">>
  /\ listeners["x"] = <<"raise">>
  /\ listeners["counter"] = <<"record">>
  /\ Troubled("x")
  /\ Received("x", 1) = <<Num(1)>>
  /\ Received(Other("x"), 1) = <<Num(1)>>

(***************************************************************************)
(* C31  What a handle resolves to.  The handle a successful set returned   *)
(* is resolved by the reaction of that set, with the value the model holds *)
(* for the key when the reaction runs: every continuation of a resolved    *)
(* handle, queued or running, carries the value of the last set of the key *)
(* in the turn, which is the value get(key) yields then, so all handles of *)
(* one key and one turn resolve to the same value, whatever each call      *)
(* staged.                                                                 *)
(***************************************************************************)
\* the continuations of resolved handles, queued or running
Continuations ==
  {f \in ChainFrames : f.k = "continuation" /\ f.r = ""}

C31_FinalValue ==
  /\ \A f \in Continuations :
       /\ staged[f.key] # <<>>
       /\ f.v = Last(staged[f.key])
       /\ f.v = get(f.key)
  /\ \A key \in Keys : \A p \in 1 .. Len(Resolutions(key)) :
       /\ staged[key] # <<>>
       /\ Resolutions(key)[p] = Last(staged[key])
  /\ TurnDone => Len(Resolutions("x")) = Len(staged["x"])

C31_Witness ==
  /\ TurnDone
  /\ issued = <<"X", "X", "X">>
  /\ turnModel["x"] = Num(0)
  /\ staged["x"] = <<Num(1), Num(0), Num(1)>>
  /\ Resolutions("x") = <<Num(1), Num(1), Num(1)>>
  /\ listeners["x"] # <<>>
  /\ Received("x", 1) = <<Num(1)>>

(***************************************************************************)
(* C32  Notified with the committed value.  Whenever emit is about to call *)
(* the listeners of a key for the reaction of a set, the value it carries  *)
(* is the value get(key) yields at that moment.                            *)
(***************************************************************************)
C32_Committed ==
  (Running("emit", "enter") /\ ~Top.direct /\ ~EmitRefused(Top.key)
     /\ listeners[Top.key] # <<>>) =>
    Top.v = get(Top.key)

(***************************************************************************)
(* Listeners that dispatch: a listener of 'x' that dispatches X with       *)
(* payload 0 when it is notified, listeners that record, the reducers X    *)
(* (which keeps what set returns) and INCREMENT, in any number of turns.   *)
(***************************************************************************)
ReenterActions == {Act("X", Num(1), FALSE), Act("X", Num(0), FALSE),
                   Act("INCREMENT", undefined, FALSE)}

StepReenter ==
  \/ StepHandle
  \/ StepEmitListener
  \/ StepEmitListenerReturn

NextReenter ==
  \/ \E model \in HandleModels : Initialize(model)
  \/ Bind(HandleBindings)
  \/ \E key \in Keys : On(key)
  \/ OnDispatch("x")
  \/ \E a \in ReenterActions : nCalls < MaxReenterCalls /\ gen > 0 /\ Bound /\ Dispatch(a)
  \/ RunMicrotask
  \/ StepReenter

SpecReenter == Init /\ [][NextReenter]_vars

(***************************************************************************)
(* C33  The two builds of the write coalescer are equivalent.  From the    *)
(* same store, the reaction of a set decides the same in both builds: it   *)
(* emits for the same keys, it emits the same value, and the promise set   *)
(* returned is fulfilled with the same value.                              *)
(***************************************************************************)
SameDecision(f) ==
  LET staged1 == _nextValueByKey[f.g][f.key]
      snapshot == _prevValueByKey[f.g][f.key]
      final == Read(_model[f.g], f.key)
      emits1 == staged1 # Absent /\ Changed(staged1, Read(_prevValueByKey[f.g], f.key))
      emits2 == snapshot # Absent /\ Changed(final, snapshot)
  IN /\ emits1 <=> emits2
     /\ staged1 # Absent => staged1 = final

C33_Equivalent ==
  /\ (variant = 1 /\ Running("then", "enter")) => SameDecision(Top)
  /\ (Running("then", "finally") /\ ret.st = "val") => Fulfilment1(Top) = Fulfilment2(Top)

(***************************************************************************)
(* Several reducers of one type, some of which raise: the script binds X   *)
(* up to MaxBinds times with a reducer that sets 'x', one that edits       *)
(* 'counter', one that raises and one that sets 'x' and then raises; no    *)
(* middleware is used; listeners record.                                   *)
(***************************************************************************)
FailCalls ==
  {[t \in {"X"} |-> "SetX"],
   [t \in {"X"} |-> "Increment"],
   [t \in {"X"} |-> "Fail"],
   [t \in {"X"} |-> "SetXFail"]}

FailActions == {Act("X", Num(1), FALSE), Act("X", Num(0), FALSE)}

StepFail ==
  \/ StepCounter
  \/ StepReducerFail
  \/ StepReducerSetFail

NextFail ==
  \/ \E model \in HandleModels : Initialize(model)
  \/ \E actions \in FailCalls : script = "setup" /\ Rebind(actions)
  \/ \E key \in Keys : On(key)
  \/ \E a \in FailActions : nCalls < MaxFailCalls /\ gen > 0 /\ Dispatch(a)
  \/ RunMicrotask
  \/ StepFail

SpecFail == Init /\ [][NextFail]_vars

(***************************************************************************)
(* C34  A reducer raises.  Of the reducers an action matches, those after  *)
(* the one that raised are not invoked; with no middleware the raise       *)
(* reaches the caller of dispatch synchronously; what the reducers staged  *)
(* before the raise stays in the Model and is evaluated at the end of the  *)
(* turn like any write: the listeners receive the changed final value.     *)
(***************************************************************************)
Raising == {"Fail", "SetXFail"}

C34_StopsAtRaise ==
  \A d \in Dispatches :
    LET ran == dispatched[d].ran
    IN /\ IsPrefix(ran, Reducers("X"))
       /\ \A p \in 1 .. Len(ran) - 1 : ran[p] \notin Raising

C34_Synchronous ==
  Back =>
    LET ran == dispatched[Top.d].ran
    IN IF ran # <<>> /\ Last(ran) \in Raising
       THEN ret = Throw(ReducerError)
       ELSE ret.st = "val" /\ ran = Reducers("X")

C34_NoRollback ==
  \A key \in Keys :
    staged[key] # <<>> =>
      /\ (stack = <<>> \/ Back) => get(key) = Last(staged[key])
      /\ TurnDone => \A n \in 1 .. Len(listeners[key]) : Received(key, n) = Owed(key)

C34_ReducerRaise == C34_StopsAtRaise /\ C34_Synchronous /\ C34_NoRollback

C34_Witness ==
  /\ TurnDone
  /\ _middleware[gen] = <<>>
  /\ Reducers("X") = <<"SetXFail", "Increment">>
  /\ issued = <<"X">>
  /\ dispatched[Len(dispatched)].ran = <<"SetXFail">>
  /\ lastCall.ret = Throw(ReducerError)
  /\ turnModel["x"] = Num(0)
  /\ get("x") = Num(1)
  /\ get("counter") = Num(0)
  /\ listeners["x"] # <<>>
  /\ Received("x", 1) = <<Num(1)>>

(***************************************************************************)
(* C35  Notification order.  The keys that change in a turn are notified   *)
(* in the order of the first set of each key in that turn that staged a    *)
(* value; the notification of a key is delivered by the reaction of that   *)
(* set, and the reactions of the later sets of the key deliver nothing.    *)
(* C35_FirstIssued counts every set call, those whose edit raised too.     *)
(***************************************************************************)
\* the set calls of the turn, by position: every dispatch of the script runs one
\* reducer, which calls set once
KeyOfType(t) ==
  IF HandleBindings[t] \in {"Increment", "Decrement"} THEN "counter" ELSE "x"
AllAt == 1 .. Len(issued)
StagedAt == {p \in AllAt : HandleBindings[issued[p]] # "RaiseX"}
FirstSet(calls, key) ==
  LET of == {p \in calls : KeyOfType(issued[p]) = key}
  IN IF of = {} THEN 0 ELSE CHOOSE p \in of : \A r \in of : p <= r

\* what the listeners were called with for the reactions of the turn
Heard == SelectSeq(notified, LAMBDA e : e.n >= 1 /\ ~e.direct)

\* the set call whose reaction is running: the reactions run in the order of the
\* set calls that queued them
Waiting == Len(SelectSeq(microtasks, LAMBDA f : f.k = "then"))
Current ==
  CHOOSE p \in StagedAt :
    Cardinality({r \in StagedAt : r <= p}) = Cardinality(StagedAt) - Waiting

OrderedBy(calls) ==
  \A i \in 1 .. Len(Heard) : \A j \in i + 1 .. Len(Heard) :
    IF Heard[i].key = Heard[j].key
    THEN Heard[i].n < Heard[j].n
    ELSE FirstSet(calls, Heard[i].key) < FirstSet(calls, Heard[j].key)

DeliveredBy(calls) ==
  (Running("emit", "enter") /\ ~Top.direct /\ stack[1].k = "then") =>
    Current = FirstSet(calls, Top.key)

C35_FirstIssued == OrderedBy(AllAt) /\ DeliveredBy(AllAt)

C35_FirstStaged == OrderedBy(StagedAt) /\ DeliveredBy(StagedAt)

C35_Witness ==
  /\ TurnDone
  /\ issued = <<"TYPE", "INCREMENT", "X">>
  /\ turnModel["x"] = Num(0)
  /\ Len(Heard) = 2
  /\ Heard[1].key = "counter" /\ Heard[1].value = Num(1)
  /\ Heard[2].key = "x" /\ Heard[2].value = Num(1)
====
